---- MODULE Spec2Model ----
(***************************************************************************)
(* Model of the curation pipeline of Positive_news: the job orchestrator   *)
(* run_scrape_job (src/scheduler.py) with its callers, the fetch           *)
(* coordinator (src/scraper.py), the two-tier scorer (src/evaluator.py)    *)
(* and the article table (src/database.py).                                *)
(*                                                                         *)
(* Scores and boosts are integers in hundredths (6.0 is 600); keyword      *)
(* weights are integers in tenths (1.5 is 15), so weight * 0.3 is          *)
(* weight * 3 hundredths.  The number in an oracle reply is a float, kept  *)
(* in thousandths, so that round(.., 2) has something to round.  Timestamps are readings of the clock `now`.     *)
(* A text is the set of ledger words it contains.                          *)
(***************************************************************************)
EXTENDS Integers, Sequences, FiniteSets, TLC

(* ------------------------------ bounds -------------------------------- *)

\* entries in one feed document
MaxFeedLen == 1
\* the clock reading (hours) when the process starts
StartHour == 100
\* number of runs (periodic, manual, startup) started in one behaviour
MaxRuns == 2
\* largest batch handed to evaluate_batch in SpecEval
MaxBatch == 27

(* -------------------------- program constants ------------------------- *)

MAX_CLAUDE_EVALS == 25
\* eligible[:6]
TopN == 6
\* _get_setting("min_publish_score", "6.0")
DefaultMinScore == 600
\* the neutral default of evaluate_article's except branches
NeutralScore == 500
\* 3.0 + _kw_pre_score for a skipped article
SkippedBase == 300
SkippedMin == 100
SkippedMax == 400
ScoreMin == 100
ScoreMax == 1000
BoostMax == 300
\* _get_setting("scrape_interval_hours", "2.0")
DefaultIntervalHours == 2

\* category when the reply names none, in the fallbacks and for a skipped
\* article
DefaultCategory == "ostatni"

NoTime == 0 - 1

\* the links the feeds serve
Urls == {1, 2}
SourceIds == {"src_a", "src_b"}
\* the scheduler's worker thread, which runs the interval job, and a thread
\* made by threading.Thread: the catch-up thread of start_scheduler or the
\* thread of admin_trigger
Periodic == <<"apscheduler", 0>>
Spawned == <<"thread", 1>>
Threads == {Periodic, Spawned}
NoThread == <<"none", 0>>

(* ----------------------------- pure helpers --------------------------- *)

Min2(a, b) == IF a <= b THEN a ELSE b
Max2(a, b) == IF a >= b THEN a ELSE b

Range(s) == {s[i] : i \in 1..Len(s)}

\* a filter that drops nothing
SelectSeqKeepsAll(s, drop) == s

RECURSIVE SelectSeqBy(_, _)
\* [a for a in s if a.url not in drop]
SelectSeqBy(s, drop) ==
    IF s = <<>> THEN <<>>
    ELSE IF Head(s).url \in drop THEN SelectSeqBy(Tail(s), drop)
         ELSE <<Head(s)>> \o SelectSeqBy(Tail(s), drop)

(* --------------------------- keyword ledger --------------------------- *)

\* a part of default_keywords, stored as _seed_defaults stores them
\* (weight = abs(weight), in tenths)
SeedKeywords ==
    << [word |-> "success",      weight |-> 15, keyword_type |-> "positive"],
       [word |-> "joy",          weight |-> 15, keyword_type |-> "positive"],
       [word |-> "peace",        weight |-> 14, keyword_type |-> "positive"],
       [word |-> "breakthrough", weight |-> 13, keyword_type |-> "positive"],
       [word |-> "rescue",       weight |-> 13, keyword_type |-> "positive"],
       [word |-> "miracle",      weight |-> 13, keyword_type |-> "positive"],
       [word |-> "hope",         weight |-> 12, keyword_type |-> "positive"],
       [word |-> "inspire",      weight |-> 12, keyword_type |-> "positive"],
       [word |-> "war",          weight |-> 20, keyword_type |-> "negative"],
       [word |-> "disaster",     weight |-> 20, keyword_type |-> "negative"],
       [word |-> "terror",       weight |-> 20, keyword_type |-> "negative"],
       [word |-> "murder",       weight |-> 20, keyword_type |-> "negative"],
       [word |-> "attack",       weight |-> 18, keyword_type |-> "negative"],
       [word |-> "crisis",       weight |-> 15, keyword_type |-> "negative"] >>

Abs(x) == IF x < 0 THEN 0 - x ELSE x

RECURSIVE BoostSum(_, _)
\* the loop of _keyword_boost: the running sum over the ledger, in order
BoostSum(text, kws) ==
    IF kws = <<>> THEN 0
    ELSE LET kw == Head(kws)
             d  == IF kw.word \in text
                   THEN IF kw.keyword_type = "positive"
                        THEN kw.weight * 3
                        ELSE 0 - Abs(kw.weight) * 3
                   ELSE 0
         IN d + BoostSum(text, Tail(kws))

\* max(-3.0, min(3.0, boost))
KeywordBoost(text, kws) == Max2(0 - BoostMax, Min2(BoostMax, BoostSum(text, kws)))

\* the texts the feeds serve: none of the ledger words, one positive word,
\* four strong negative words, every positive word
TextKinds ==
    << {}, {"success"}, {"war", "disaster", "terror", "murder"},
       {"success", "joy", "peace", "breakthrough", "rescue", "miracle", "hope", "inspire"} >>

\* title and description of the entry a feed serves under a URL
TextOf(u) == TextKinds[(u % Len(TextKinds)) + 1]

(* --------------------------- fetch coordinator ------------------------ *)

\* the enabled sources in query order
SourceOrder == << "src_a", "src_b" >>

SeqsUpTo(S, n) == UNION {[1..k -> S] : k \in 0..n}

\* what one feed endpoint can answer: a document with entries, or a failure
FeedReplies ==
    {[ok |-> TRUE, urls |-> us] : us \in SeqsUpTo(Urls, MaxFeedLen)}
        \cup {[ok |-> FALSE, urls |-> <<>>]}

\* feed.entries[:20]
FeedCap == 20

\* an entry without a link: getattr(entry, "link", "") gives ""
NoLink == 0

\* _clean_html on the titles the sample documents carry: None and "" give
\* "", every tag becomes a blank, and the ends are stripped
CleanHtml ==
    ("" :> "") @@ (" " :> "") @@ ("<b></b>" :> "") @@
    ("<b>title</b>" :> "title") @@ ("title" :> "title")

RECURSIVE EntryLoop(_, _)
\* the body of the entry loop of fetch_feed: an entry whose cleaned title
\* or whose link is empty is passed over, any other is appended
EntryLoop(src, entries) ==
    IF entries = <<>> THEN <<>>
    ELSE LET entry == Head(entries)
             title == CleanHtml[entry.title]
             link  == entry.link
         IN (IF title = "" \/ link = NoLink
             THEN <<>>
             ELSE << [url |-> link, text |-> TextOf(link), source_name |-> src] >>)
                \o EntryLoop(src, Tail(entries))

\* an entry loop that walks the whole document
FeedArticlesNoCap(src, entries) == EntryLoop(src, entries)

\* for entry in feed.entries[:20]: the articles of one parsed document
FeedArticles(src, entries) ==
    EntryLoop(src, SubSeq(entries, 1, Min2(Len(entries), FeedCap)))

\* fetch_feed: the articles of the document of a source, whose entries
\* carry the links reply.urls and a title each; [] when the request or the
\* parse fails
FetchFeed(src, reply) ==
    IF reply.ok
    THEN FeedArticles(src, [i \in 1..Len(reply.urls) |->
                               [title |-> "title", link |-> reply.urls[i]]])
    ELSE <<>>

RECURSIVE DedupKeepsLast(_, _)
\* a loop that keeps, for each URL, the occurrence that comes last
DedupKeepsLast(all, seen) ==
    IF all = <<>> THEN <<>>
    ELSE IF \E i \in 2..Len(all) : all[i].url = Head(all).url
         THEN DedupKeepsLast(Tail(all), seen)
         ELSE <<Head(all)>> \o DedupKeepsLast(Tail(all), seen)

RECURSIVE Dedup(_, _)
\* the seen_urls loop of fetch_all_feeds
Dedup(all, seen) ==
    IF all = <<>> THEN <<>>
    ELSE IF Head(all).url \in seen THEN Dedup(Tail(all), seen)
         ELSE <<Head(all)>> \o Dedup(Tail(all), seen \cup {Head(all).url})

RECURSIVE ExtendAllStopsAtFailure(_, _, _)
\* a source loop that gives up at the first source that fails
ExtendAllStopsAtFailure(order, srcs, replies) ==
    IF order = <<>> THEN <<>>
    ELSE IF Head(order) \in srcs /\ ~replies[Head(order)].ok THEN <<>>
    ELSE (IF Head(order) \in srcs
          THEN FetchFeed(Head(order), replies[Head(order)]) ELSE <<>>)
            \o ExtendAllStopsAtFailure(Tail(order), srcs, replies)

RECURSIVE ExtendAll(_, _, _)
\* the source loop of fetch_all_feeds: all_articles.extend(fetch_feed(..))
\* for every enabled source
ExtendAll(order, srcs, replies) ==
    IF order = <<>> THEN <<>>
    ELSE (IF Head(order) \in srcs
          THEN FetchFeed(Head(order), replies[Head(order)]) ELSE <<>>)
            \o ExtendAll(Tail(order), srcs, replies)

FetchAllFeeds(srcs, replies) == Dedup(ExtendAll(SourceOrder, srcs, replies), {})

(* ---------------------------- two-tier scorer ------------------------- *)

\* a float: a number in thousandths, or one of the values json.loads makes
\* of NaN, Infinity and -Infinity
Num(v) == [cls |-> "num", v |-> v]
NaN == [cls |-> "nan", v |-> 0]
PosInf == [cls |-> "inf", v |-> 0]
NegInf == [cls |-> "-inf", v |-> 0]

\* a < b on floats: False whenever one side is NaN
FLt(a, b) ==
    IF a.cls = "nan" \/ b.cls = "nan" THEN FALSE
    ELSE IF a.cls = "-inf" THEN b.cls # "-inf"
    ELSE IF b.cls = "inf" THEN a.cls # "inf"
    ELSE IF a.cls = "num" /\ b.cls = "num" THEN a.v < b.v
    ELSE FALSE

\* a + b for a finite b
FAdd(a, b) == IF a.cls = "num" THEN Num(a.v + b.v) ELSE a

\* the builtins min(a, b) and max(a, b): the first argument unless the
\* second is smaller (larger)
PyMin(a, b) == IF FLt(b, a) THEN b ELSE a
PyMax(a, b) == IF FLt(a, b) THEN b ELSE a

\* round(x, 2) of a finite x >= 0, thousandths to hundredths, ties to even
Round2(x) ==
    LET q == x.v \div 10
        r == x.v % 10
    IN IF r < 5 THEN q
       ELSE IF r > 5 THEN q + 1
       ELSE IF q % 2 = 0 THEN q ELSE q + 1

\* a final score through no upper limit
FinalScoreNoCeiling(claude_score, boost) ==
    Round2(PyMax(Num(ScoreMin * 10), FAdd(claude_score, Num(boost * 10))))

\* final_score = max(1.0, min(10.0, claude_score + boost)), rounded
FinalScore(claude_score, boost) ==
    Round2(PyMax(Num(ScoreMin * 10),
                 PyMin(Num(ScoreMax * 10), FAdd(claude_score, Num(boost * 10)))))

\* the numeric scores the judgment oracle answers with
OracleScores == {Num(9000)}

\* replies of the judgment oracle: a JSON object with a score, text that
\* json.loads rejects, a transport error (anthropic.APIError), or a reply
\* of a shape evaluate_article does not catch (TypeError, AttributeError,
\* IndexError)
OracleReplies ==
    {[kind |-> "json", score |-> s] : s \in OracleScores}
        \cup {[kind |-> k, score |-> Num(0)] : k \in {"malformed", "api_error", "unexpected"}}

\* evaluate_article for a reply it handles: the evaluation dict
EvaluateArticle(article, kws, reply) ==
    IF reply.kind = "json"
    THEN [score  |-> FinalScore(reply.score, KeywordBoost(article.text, kws)),
          reason |-> "oracle"]
    ELSE IF reply.kind = "malformed"
         THEN [score |-> NeutralScore, reason |-> "Nelze ohodnotit"]
         ELSE [score |-> NeutralScore, reason |-> "API chyba"]

\* the dict evaluate_article returns, with all four keys; the replies
\* carry a score only, so the other keys of a parsed reply are the defaults
\* of result.get, but for the reason, which stands for the oracle's
EvaluateArticleDict(article, kws, reply) ==
    LET ev == EvaluateArticle(article, kws, reply)
    IN [score |-> ev.score, reason |-> ev.reason,
        extracted_keywords |-> <<>>, category |-> DefaultCategory]

RECURSIVE InsertDesc(_, _, _)
InsertDesc(sorted, i, keys) ==
    IF sorted = <<>> THEN <<i>>
    ELSE IF keys[Head(sorted)] >= keys[i]
         THEN <<Head(sorted)>> \o InsertDesc(Tail(sorted), i, keys)
         ELSE <<i>> \o sorted

RECURSIVE SortIdxDesc(_, _)
\* sorted(.., reverse=True) as the positions 1..n of the list in their
\* sorted order: descending by key, equal keys in their original order
SortIdxDesc(keys, n) ==
    IF n = 0 THEN <<>> ELSE InsertDesc(SortIdxDesc(keys, n - 1), n, keys)

\* step 1 of evaluate_batch: every article gets its _kw_pre_score
WithPreScores(arts, kws) ==
    [i \in 1..Len(arts) |->
        [url |-> arts[i].url, text |-> arts[i].text,
         kw_pre_score |-> KeywordBoost(arts[i].text, kws)]]

\* a step 2 that leaves the articles in the order they came in
PreSortedKeepsOrder(arts) == [i \in 1..Len(arts) |-> i]

\* step 2 of evaluate_batch: pre_sorted, as positions of `articles`
PreSorted(arts) ==
    SortIdxDesc([i \in 1..Len(arts) |-> arts[i].kw_pre_score], Len(arts))

\* a split that lets one more article through to the oracle
CandidatesOneMore(order) == SubSeq(order, 1, Min2(Len(order), MAX_CLAUDE_EVALS + 1))

\* pre_sorted[:MAX_CLAUDE_EVALS] and pre_sorted[MAX_CLAUDE_EVALS:]
Candidates(order) == SubSeq(order, 1, Min2(Len(order), MAX_CLAUDE_EVALS))
Skipped(order) == SubSeq(order, Min2(Len(order), MAX_CLAUDE_EVALS) + 1, Len(order))

\* a score of a skipped article with no floor
SkippedScoreNoFloor(pre) == Min2(SkippedMax, SkippedBase + pre)

\* step 4 of evaluate_batch: the score of a skipped article
SkippedScore(pre) == Max2(SkippedMin, Min2(SkippedMax, SkippedBase + pre))

\* step 4 of evaluate_batch: the four keys a skipped article is given
SkippedEvaluation(pre) ==
    [positivity_score |-> SkippedScore(pre), score_reason |-> "Pre-filtrovano",
     extracted_keywords |-> <<>>, category |-> DefaultCategory]

\* an article after the four keys of its evaluation were stored in it
Scored(a, ev) ==
    [url |-> a.url, text |-> a.text, kw_pre_score |-> a.kw_pre_score,
     positivity_score |-> ev.positivity_score, score_reason |-> ev.score_reason,
     extracted_keywords |-> ev.extracted_keywords, category |-> ev.category]

\* a return that gives the skipped articles their score and hands the list
\* back in the order it came in
FinishBatchKeepsOrder(arts, order) ==
    LET sk == Range(Skipped(order))
    IN [i \in 1..Len(arts) |->
           IF i \in sk
           THEN Scored(arts[i], SkippedEvaluation(arts[i].kw_pre_score))
           ELSE arts[i]]

\* step 4 and the return of evaluate_batch: the skipped articles get their
\* score, then sorted(articles, key=positivity_score, reverse=True)
FinishBatch(arts, order) ==
    LET sk   == Range(Skipped(order))
        done == [i \in 1..Len(arts) |->
                    IF i \in sk
                    THEN Scored(arts[i], SkippedEvaluation(arts[i].kw_pre_score))
                    ELSE arts[i]]
        perm == SortIdxDesc([i \in 1..Len(done) |-> done[i].positivity_score], Len(done))
    IN [k \in 1..Len(perm) |-> done[perm[k]]]

(* ------------------------------ selector ------------------------------ *)

RECURSIVE Eligible(_, _)
\* [a for a in ranked if a["positivity_score"] >= min_score]
Eligible(ranked, min_score) ==
    IF ranked = <<>> THEN <<>>
    ELSE IF Head(ranked).positivity_score >= min_score
         THEN <<Head(ranked)>> \o Eligible(Tail(ranked), min_score)
         ELSE Eligible(Tail(ranked), min_score)

\* eligible[:6]
Top6(eligible) == SubSeq(eligible, 1, Min2(Len(eligible), TopN))

(* ------------------------------- state -------------------------------- *)

VARIABLES
    status,        \* scheduler._status
    pc,            \* where each thread is in run_scrape_job
    frame,         \* the locals of each thread's call of run_scrape_job
    session,       \* each call's db session: its open transaction
    store,         \* the committed rows of the articles table
    settings,      \* the committed rows of the settings table
    keywords,      \* the keywords table
    dbLock,        \* the thread holding the database's write lock
    schedRunning,  \* scheduler.running
    now,           \* the clock: it ticks when a run takes its start time
    lastCommit,    \* the start time of the run whose batch was committed last
    call,          \* a single call of one function: its name, arguments, result
    jobTrigger,    \* the period (hours) of the interval trigger of "scrape_job"
    writer         \* where a thread is inside one update of _status

vars == << status, pc, frame, session, store, settings, keywords,
           dbLock, schedRunning, now, lastCommit, call, jobTrigger, writer >>

\* the value column of the settings table: the text str() makes of a
\* float, kept as the digits before the point and the digits behind it;
\* no row is a text without digits
NoRow == [whole |-> 0, frac |-> <<>>]

\* a text that leaves out the digits behind the point
PyStrWhole(x) == [whole |-> x \div 100, frac |-> <<0>>]

\* str(x) of a float x >= 0 given in hundredths: "6.0", "6.5", "6.25"
PyStr(x) ==
    [whole |-> x \div 100,
     frac  |-> IF x % 10 = 0 THEN << (x % 100) \div 10 >>
               ELSE << (x % 100) \div 10, x % 10 >>]

\* float(text), in hundredths
PyFloat(text) ==
    text.whole * 100 + text.frac[1] * 10
        + (IF Len(text.frac) > 1 THEN text.frac[2] ELSE 0)

\* the sample scores ending in 5 hundredths that lie, as binary floats,
\* above the middle of their two neighbours (5.95, 6.45); 6.25 is the
\* middle itself and goes to the even neighbour, 6.35 lies below
TiesRoundedUp == {595, 645}

\* round(score, 1), hundredths to hundredths
Round1(x) ==
    LET q == x \div 10
        r == x % 10
    IN 10 * (IF r < 5 \/ (r = 5 /\ x \notin TiesRoundedUp) THEN q ELSE q + 1)

\* no job has been added to the scheduler
NoTrigger == 0 - 1

\* no update of _status is under way
NoWriter == [run |-> "", update |-> 0, write |-> 0]

\* no single call is under examination
NoCall == [fn |-> "", arg |-> <<>>, done |-> FALSE, result |-> <<>>]

NewCall(fn, arg) == [fn |-> fn, arg |-> arg, done |-> FALSE, result |-> <<>>]

\* phase is the phase the call passed to _set last, "" before its first
\* _set; rows_at_start is the committed article table at the moment the call
\* took the guard
EmptyFrame ==
    [started_at |-> NoTime, rows_at_start |-> <<>>, phase |-> "", sources |-> {},
     new_articles |-> <<>>, pre_sorted |-> <<>>, idx |-> 0, ranked |-> <<>>,
     min_score |-> 0, top6 |-> <<>>, msg |-> <<"">>, oracle_calls |-> <<>>,
     error |-> ""]

EmptySession == [cleared |-> FALSE, pending |-> <<>>]

\* _status as the module defines it
InitStatus ==
    [running |-> FALSE, started_at |-> NoTime, phase |-> "idle",
     phase_detail |-> <<"">>, evaluated |-> 0, total_to_evaluate |-> 0,
     last_run_at |-> NoTime, last_run_result |-> <<"">>]

Init ==
    /\ status = InitStatus
    /\ pc = [t \in Threads |-> "idle"]
    /\ frame = [t \in Threads |-> EmptyFrame]
    /\ session = [t \in Threads |-> EmptySession]
    /\ store = <<>>
    /\ settings \in {[last_run_ts |-> ts, scrape_interval_hours |-> NoRow,
                   min_publish_score |-> NoRow] :
                        ts \in {NoTime, StartHour}}
    /\ keywords = SeedKeywords
    /\ dbLock = NoThread
    /\ schedRunning = FALSE
    /\ now = StartHour
    /\ lastCommit = 0
    /\ call = NoCall
    /\ jobTrigger = NoTrigger
    /\ writer = NoWriter

\* _set(phase, detail)
Set(st, phase, detail) == [st EXCEPT !.phase = phase, !.phase_detail = detail]

\* float(_get_setting("last_run_ts", "0")) for the stored value, NoTime
\* when there is no row
LastRunTsOf(stored) == IF stored = NoTime THEN 0 ELSE stored

LastRunTs == LastRunTsOf(settings.last_run_ts)

\* get_min_score(): float of the row, or of the default when there is none
GetMinScore ==
    IF settings.min_publish_score = NoRow THEN DefaultMinScore
    ELSE PyFloat(settings.min_publish_score)

\* _get_interval_hours(): float of the row, or of the default when there is
\* none, in whole hours
GetIntervalHours ==
    IF settings.scrape_interval_hours = NoRow THEN DefaultIntervalHours
    ELSE PyFloat(settings.scrape_interval_hours) \div 100

Goto(t, label) == pc' = [pc EXCEPT ![t] = label]

\* raise inside the try block of run_scrape_job: control goes to the
\* except clause with the exception in hand
Raise(t, what) ==
    /\ Goto(t, "except")
    /\ frame' = [frame EXCEPT ![t] = [EmptyFrame EXCEPT
                                        !.started_at = frame[t].started_at,
                                        !.rows_at_start = frame[t].rows_at_start,
                                        !.phase = frame[t].phase,
                                        !.error = what]]

\* as Raise, after a _set(phase, ..) of the same step
RaiseIn(t, phase, what) ==
    /\ Goto(t, "except")
    /\ frame' = [frame EXCEPT ![t] = [EmptyFrame EXCEPT
                                        !.started_at = frame[t].started_at,
                                        !.rows_at_start = frame[t].rows_at_start,
                                        !.phase = phase,
                                        !.error = what]]

(* ----------------------- scheduler and triggers ----------------------- *)

\* a behaviour starts at most MaxRuns runs: those started and those between
\* the trigger and the start
CanStartRun ==
    (now - StartHour) + Cardinality({t \in Threads : pc[t] \in {"check", "acquire"}})
        < MaxRuns

\* a test that lets the catch-up run wait for more than one interval
CatchUpDueStrict(last_ts, hours, time) == time - last_ts > hours

\* elapsed_hours >= hours
CatchUpDue(last_ts, hours, time) == time - last_ts >= hours

\* start_scheduler: add the interval job, start the scheduler, and launch
\* the catch-up thread when the last run is at least one interval old
StartScheduler ==
    /\ ~schedRunning
    /\ schedRunning' = TRUE
    /\ IF CatchUpDue(LastRunTs, GetIntervalHours, now) /\ CanStartRun
       THEN Goto(Spawned, "check")
       ELSE UNCHANGED pc
    /\ jobTrigger' = GetIntervalHours
    /\ UNCHANGED << call, writer, status, frame, session, store, settings, keywords,
                    dbLock, now, lastCommit >>

\* the interval trigger fires; max_instances=1, so not while the job's
\* previous instance is still running
TriggerPeriodic ==
    /\ schedRunning
    /\ pc[Periodic] = "idle"
    /\ CanStartRun
    /\ Goto(Periodic, "check")
    /\ UNCHANGED << call, jobTrigger, writer, status, frame, session, store, settings, keywords,
                    dbLock, schedRunning, now, lastCommit >>

\* admin_trigger: a new thread runs trigger_manual, which calls
\* run_scrape_job
AdminTrigger ==
    /\ schedRunning
    /\ pc[Spawned] = "idle"
    /\ CanStartRun
    /\ Goto(Spawned, "check")
    /\ UNCHANGED << call, jobTrigger, writer, status, frame, session, store, settings, keywords,
                    dbLock, schedRunning, now, lastCommit >>

(* ---------------------------- run_scrape_job -------------------------- *)

\* a start that does not look at the guard
CheckRunningIgnoresGuard(t) ==
    /\ pc[t] = "check"
    /\ Goto(t, "acquire")
    /\ UNCHANGED << call, jobTrigger, writer, status, frame, session, store, settings, keywords,
                    dbLock, schedRunning, now, lastCommit >>

\* if _status["running"]: return
CheckRunning(t) ==
    /\ pc[t] = "check"
    /\ IF status.running THEN Goto(t, "idle") ELSE Goto(t, "acquire")
    /\ UNCHANGED << call, jobTrigger, writer, status, frame, session, store, settings, keywords,
                    dbLock, schedRunning, now, lastCommit >>

\* a start that goes on to fetching whatever the sources are
AcquireIgnoresNoSources(t) ==
    /\ pc[t] = "acquire"
    /\ now' = now + 1
    /\ \E sources \in SUBSET SourceIds :
       LET st == [status EXCEPT !.running = TRUE, !.started_at = now + 1,
                                !.evaluated = 0, !.total_to_evaluate = 0]
           fr == [EmptyFrame EXCEPT !.started_at = now + 1, !.rows_at_start = store]
       IN /\ status' = Set(st, "fetching", <<"fetching">>)
          /\ frame' = [frame EXCEPT ![t] = [fr EXCEPT !.phase = "fetching",
                                                      !.sources = sources]]
          /\ Goto(t, "fetch")
    /\ UNCHANGED << call, jobTrigger, writer, session, store, settings, keywords, dbLock,
                    schedRunning, lastCommit >>

\* _status["running"] = True, started_at and the counters; the session;
\* the queries for the enabled sources (any of the sources, as the admin
\* toggles them) and the keywords; no enabled source: error, else phase
\* fetching
Acquire(t) ==
    /\ pc[t] = "acquire"
    /\ now' = now + 1
    /\ \E sources \in SUBSET SourceIds :
       LET srcs == sources
           st == [status EXCEPT !.running = TRUE, !.started_at = now + 1,
                                !.evaluated = 0, !.total_to_evaluate = 0]
           fr == [EmptyFrame EXCEPT !.started_at = now + 1, !.rows_at_start = store]
       IN IF srcs = {}
          THEN /\ status' = Set(st, "error", <<"no_sources">>)
               /\ frame' = [frame EXCEPT ![t] = [fr EXCEPT !.phase = "error"]]
               /\ Goto(t, "finally")
          ELSE /\ status' = Set(st, "fetching", <<"fetching">>)
               /\ frame' = [frame EXCEPT ![t] = [fr EXCEPT !.phase = "fetching",
                                                           !.sources = srcs]]
               /\ Goto(t, "fetch")
    /\ UNCHANGED << call, jobTrigger, writer, session, store, settings, keywords, dbLock,
                    schedRunning, lastCommit >>

\* _set("evaluating", ..) and evaluate_batch, steps 1 and 2, in the frame of
\* the call
EnterBatch(fr, articles, kws) ==
    LET arts == WithPreScores(articles, kws)
    IN [fr EXCEPT !.phase = "evaluating", !.sources = {}, !.new_articles = arts,
                  !.pre_sorted = PreSorted(arts), !.idx = 1]

\* articles = fetch_all_feeds(sources), existing_urls, new_articles:
\* nothing fetched: done; nothing new: done, then the timestamp; else phase
\* evaluating, and steps 1 and 2 of evaluate_batch: the pre-scores,
\* pre_sorted and the split
Fetch(t) ==
    /\ pc[t] = "fetch"
    /\ \E replies \in [SourceIds -> FeedReplies] :
          LET articles == FetchAllFeeds(frame[t].sources, replies)
              existing_urls == {store[i].original_url : i \in 1..Len(store)}
              new_articles == SelectSeqBy(articles, existing_urls)
              will_eval == Min2(Len(new_articles), MAX_CLAUDE_EVALS)
          IN IF articles = <<>>
             THEN /\ status' = Set(status, "done", <<"nothing_fetched">>)
                  /\ frame' = [frame EXCEPT ![t].sources = {}, ![t].phase = "done"]
                  /\ Goto(t, "finally")
             ELSE IF new_articles = <<>>
                  THEN /\ status' = Set(status, "done", <<"nothing_new">>)
                       /\ frame' = [frame EXCEPT ![t].sources = {}, ![t].phase = "done"]
                       /\ Goto(t, "save_new")
                  ELSE /\ status' = [Set(status, "evaluating", <<"evaluated", 0, will_eval>>)
                                        EXCEPT !.evaluated = 0,
                                               !.total_to_evaluate = will_eval]
                       /\ frame' = [frame EXCEPT ![t] = EnterBatch(@, new_articles, keywords)]
                       /\ Goto(t, "eval_oracle")
    /\ UNCHANGED << call, jobTrigger, writer, session, store, settings, keywords, dbLock,
                    schedRunning, now, lastCommit >>

\* _save_setting("last_run_ts", str(time.time())) in a session of its own:
\* it needs the write lock, and fails (database is locked) when another
\* connection keeps it
SaveLastRunTs(t, next) ==
    \/ /\ dbLock = NoThread
       /\ settings' = [settings EXCEPT !.last_run_ts = now]
       /\ Goto(t, next)
       /\ UNCHANGED frame
    \/ /\ dbLock \notin {NoThread, t}
       /\ Raise(t, "database is locked")
       /\ UNCHANGED settings

\* the nothing-new exit: _save_setting, return
SaveNothingNew(t) ==
    /\ pc[t] = "save_new"
    /\ SaveLastRunTs(t, "finally")
    /\ UNCHANGED << call, jobTrigger, writer, status, session, store, keywords, dbLock,
                    schedRunning, now, lastCommit >>

\* _progress_cb(done, total, title)
ProgressCb(st, done, total, title) ==
    [st EXCEPT !.evaluated = done, !.phase_detail = <<"evaluated", done, total>>]

\* evaluate_batch, step 3, one turn of the loop: evaluate_article calls the
\* oracle for candidates[idx], the evaluation is stored in the article and
\* progress_cb is called; a reply evaluate_article does not handle raises
EvalOracleWith(t, reply) ==
    /\ pc[t] = "eval_oracle"
    /\ LET cands == Candidates(frame[t].pre_sorted)
           i     == frame[t].idx
           pos   == cands[i]
           a     == frame[t].new_articles[pos]
           calls == Append(frame[t].oracle_calls, a.url)
       IN IF reply.kind = "unexpected"
          THEN /\ Raise(t, "oracle reply")
               /\ UNCHANGED status
          ELSE LET evaluation == EvaluateArticleDict(a, keywords, reply)
                   ev == [positivity_score |-> evaluation.score,
                          score_reason |-> evaluation.reason,
                          extracted_keywords |-> evaluation.extracted_keywords,
                          category |-> evaluation.category]
               IN /\ frame' = [frame EXCEPT
                                 ![t].new_articles[pos] = Scored(a, ev),
                                 ![t].oracle_calls = calls,
                                 ![t].idx = i + 1]
                  /\ status' = ProgressCb(status, i, Len(cands), a.url)
                  /\ Goto(t, IF i = Len(cands) THEN "select" ELSE "eval_oracle")
    /\ UNCHANGED << call, jobTrigger, writer, session, store, settings, keywords, dbLock,
                    schedRunning, now, lastCommit >>

EvalOracle(t) == \E reply \in OracleReplies : EvalOracleWith(t, reply)

\* evaluate_batch, step 4 and the return (ranked); then min_score,
\* eligible, top6; nothing eligible: done with the message
SelectTop(t) ==
    /\ pc[t] = "select"
    /\ LET min_score == GetMinScore
           ranked == FinishBatch(frame[t].new_articles, frame[t].pre_sorted)
           top6 == Top6(Eligible(ranked, min_score))
           msg == <<"none_eligible", min_score, ranked[1].positivity_score>>
           fr == [EmptyFrame EXCEPT !.started_at = frame[t].started_at,
                                    !.rows_at_start = frame[t].rows_at_start,
                                    !.phase = frame[t].phase]
       IN IF top6 = <<>>
          THEN /\ status' = Set(status, "done", msg)
               /\ frame' = [frame EXCEPT ![t] = [fr EXCEPT !.msg = msg,
                                                           !.phase = "done"]]
               /\ Goto(t, "save_elig")
          ELSE /\ frame' = [frame EXCEPT ![t] = [fr EXCEPT !.min_score = min_score,
                                                           !.top6 = top6]]
               /\ Goto(t, "unflag")
               /\ UNCHANGED status
    /\ UNCHANGED << call, jobTrigger, writer, session, store, settings, keywords, dbLock,
                    schedRunning, now, lastCommit >>

\* the nothing-eligible exit: _save_setting, last_run_at, last_run_result
SaveNothingEligible(t) ==
    /\ pc[t] = "save_elig"
    /\ SaveLastRunTs(t, "finally")
    /\ IF dbLock = NoThread
       THEN status' = [status EXCEPT !.last_run_at = now,
                                     !.last_run_result = frame[t].msg]
       ELSE UNCHANGED status
    /\ UNCHANGED << call, jobTrigger, writer, session, store, keywords, dbLock,
                    schedRunning, now, lastCommit >>

\* an UPDATE that is written through to the table at once
UnflagWritesThrough(t) ==
    /\ pc[t] = "unflag"
    /\ \/ /\ dbLock = NoThread
          /\ dbLock' = t
          /\ store' = [i \in 1..Len(store) |-> [store[i] EXCEPT !.is_published = FALSE]]
          /\ session' = [session EXCEPT ![t].cleared = TRUE]
          /\ frame' = [frame EXCEPT ![t].idx = 1]
          /\ Goto(t, "generate")
       \/ /\ dbLock \notin {NoThread, t}
          /\ Raise(t, "database is locked")
          /\ UNCHANGED << dbLock, session, store >>
    /\ UNCHANGED << call, jobTrigger, writer, status, settings, keywords,
                    schedRunning, now, lastCommit >>

\* db.query(Article).filter(is_published == True).update(..): the UPDATE
\* opens the session's transaction and takes the write lock; it fails when
\* another connection keeps the lock
Unflag(t) ==
    /\ pc[t] = "unflag"
    /\ \/ /\ dbLock = NoThread
          /\ dbLock' = t
          /\ session' = [session EXCEPT ![t].cleared = TRUE]
          /\ frame' = [frame EXCEPT ![t].idx = 1]
          /\ Goto(t, "generate")
       \/ /\ dbLock \notin {NoThread, t}
          /\ Raise(t, "database is locked")
          /\ UNCHANGED << dbLock, session >>
    /\ UNCHANGED << call, jobTrigger, writer, status, store, settings, keywords,
                    schedRunning, now, lastCommit >>

\* Article(.., is_published=True, ..) for a selected candidate
NewArticle(raw, run) ==
    [original_url |-> raw.url, is_published |-> TRUE, batch |-> run]

\* one turn of the generating loop: _set, generate_article, find_image,
\* db.add; generate_article and find_image raise what they do not catch
Generate(t) ==
    /\ pc[t] = "generate"
    /\ LET i == frame[t].idx
           n == Len(frame[t].top6)
           raw == frame[t].top6[i]
       IN /\ status' = Set(status, "generating", <<"generating", i, n>>)
          /\ \E raised \in BOOLEAN :
                IF raised
                THEN /\ RaiseIn(t, "generating", "generate")
                     /\ UNCHANGED session
                ELSE /\ session' = [session EXCEPT ![t].pending =
                                       Append(@, NewArticle(raw, frame[t].started_at))]
                     /\ frame' = [frame EXCEPT ![t].idx = i + 1,
                                               ![t].phase = "generating"]
                     /\ Goto(t, IF i = n THEN "commit" ELSE "generate")
    /\ UNCHANGED << call, jobTrigger, writer, store, settings, keywords, dbLock,
                    schedRunning, now, lastCommit >>

\* a commit whose UPDATE is lost: the old flags stay
CommittedKeepsFlags(rows, sess) == rows \o sess.pending

\* the rows of the table after the transaction of a session is committed:
\* the UPDATE's is_published = False on every row, then the pending inserts
Committed(rows, sess) ==
    (IF sess.cleared
     THEN [i \in 1..Len(rows) |-> [rows[i] EXCEPT !.is_published = FALSE]]
     ELSE rows) \o sess.pending

\* db.commit(): the transaction becomes visible as a whole, or fails; after
\* it _set("done", result_msg), last_run_at, last_run_result
Commit(t) ==
    /\ pc[t] = "commit"
    /\ \E raised \in BOOLEAN :
          IF raised
          THEN /\ Raise(t, "commit")
               /\ UNCHANGED << status, store, session, dbLock, lastCommit >>
          ELSE LET result_msg == <<"ok", Len(frame[t].top6), frame[t].min_score>>
               IN /\ store' = Committed(store, session[t])
                  /\ session' = [session EXCEPT ![t] = EmptySession]
                  /\ dbLock' = NoThread
                  /\ lastCommit' = frame[t].started_at
                  /\ status' = [Set(status, "done", result_msg)
                                   EXCEPT !.last_run_at = now,
                                          !.last_run_result = result_msg]
                  /\ frame' = [frame EXCEPT ![t].top6 = <<>>, ![t].idx = 0,
                                            ![t].phase = "done"]
                  /\ Goto(t, "save_ok")
    /\ UNCHANGED << call, jobTrigger, writer, settings, keywords, schedRunning, now >>

\* the last statement of the try block: _save_setting("last_run_ts", ..)
SaveAfterPublish(t) ==
    /\ pc[t] = "save_ok"
    /\ SaveLastRunTs(t, "finally")
    /\ UNCHANGED << call, jobTrigger, writer, status, session, store, keywords, dbLock,
                    schedRunning, now, lastCommit >>

\* an except clause that commits the session instead of rolling it back
ExceptCommits(t) ==
    /\ pc[t] = "except"
    /\ status' = Set(status, "error", <<"exception", frame[t].error>>)
    /\ store' = (IF session[t].cleared
                 THEN [i \in 1..Len(store) |-> [store[i] EXCEPT !.is_published = FALSE]]
                 ELSE store) \o session[t].pending
    /\ session' = [session EXCEPT ![t] = EmptySession]
    /\ dbLock' = IF dbLock = t THEN NoThread ELSE dbLock
    /\ frame' = [frame EXCEPT ![t].phase = "error"]
    /\ Goto(t, "finally")
    /\ UNCHANGED << call, jobTrigger, writer, settings, keywords, schedRunning, now, lastCommit >>

\* an except clause that rolls back but leaves the phase as it was
ExceptKeepsPhase(t) ==
    /\ pc[t] = "except"
    /\ session' = [session EXCEPT ![t] = EmptySession]
    /\ dbLock' = IF dbLock = t THEN NoThread ELSE dbLock
    /\ Goto(t, "finally")
    /\ UNCHANGED << call, jobTrigger, writer, status, frame, store, settings, keywords,
                    schedRunning, now, lastCommit >>

\* except Exception: _set("error", str(e)[:120]); db.rollback()
Except(t) ==
    /\ pc[t] = "except"
    /\ status' = Set(status, "error", <<"exception", frame[t].error>>)
    /\ session' = [session EXCEPT ![t] = EmptySession]
    /\ dbLock' = IF dbLock = t THEN NoThread ELSE dbLock
    /\ frame' = [frame EXCEPT ![t].phase = "error"]
    /\ Goto(t, "finally")
    /\ UNCHANGED << call, jobTrigger, writer, store, settings, keywords,
                    schedRunning, now, lastCommit >>

\* a finally clause that closes the session but keeps the guard
FinallyKeepsGuard(t) ==
    /\ pc[t] = "finally"
    /\ session' = [session EXCEPT ![t] = EmptySession]
    /\ dbLock' = IF dbLock = t THEN NoThread ELSE dbLock
    /\ frame' = [frame EXCEPT ![t] = EmptyFrame]
    /\ Goto(t, "idle")
    /\ UNCHANGED << call, jobTrigger, writer, status, store, settings, keywords,
                    schedRunning, now, lastCommit >>

\* finally: _status["running"] = False; db.close()
Finally(t) ==
    /\ pc[t] = "finally"
    /\ status' = [status EXCEPT !.running = FALSE]
    /\ session' = [session EXCEPT ![t] = EmptySession]
    /\ dbLock' = IF dbLock = t THEN NoThread ELSE dbLock
    /\ frame' = [frame EXCEPT ![t] = EmptyFrame]
    /\ Goto(t, "idle")
    /\ UNCHANGED << call, jobTrigger, writer, store, settings, keywords,
                    schedRunning, now, lastCommit >>

RunStep(t) ==
    \/ CheckRunning(t) \/ Acquire(t) \/ Fetch(t)
    \/ SaveNothingNew(t) \/ EvalOracle(t)
    \/ SelectTop(t) \/ SaveNothingEligible(t) \/ Unflag(t)
    \/ Generate(t) \/ Commit(t) \/ SaveAfterPublish(t)
    \/ Except(t) \/ Finally(t)

Next ==
    \/ StartScheduler
    \/ TriggerPeriodic
    \/ AdminTrigger
    \/ \E t \in Threads : RunStep(t)

Spec == Init /\ [][Next]_vars

(* --------------------- the pipeline and set_interval ------------------ *)

\* the interval an administrator writes
NewIntervals == {1}

\* intervals admin_set_interval lets through, in whole hours
SampleIntervals == {1, DefaultIntervalHours, 24}

\* set_interval(hours), called by admin_set_interval while the application
\* serves requests: _save_setting in a session of its own, which fails
\* (database is locked) while a run keeps the write lock, and then
\* scheduler.reschedule_job; one call is followed in a behaviour
SetInterval(hours) ==
    /\ schedRunning
    /\ call = NoCall
    /\ \/ /\ dbLock = NoThread
          /\ settings' = [settings EXCEPT !.scrape_interval_hours = PyStr(hours * 100)]
          /\ jobTrigger' = hours
          /\ call' = [NewCall("set_interval", [hours |-> hours]) EXCEPT
                         !.done = TRUE, !.result = [raised |-> ""]]
       \/ /\ dbLock # NoThread
          /\ call' = [NewCall("set_interval", [hours |-> hours]) EXCEPT
                         !.done = TRUE, !.result = [raised |-> "database is locked"]]
          /\ UNCHANGED << settings, jobTrigger >>
    /\ UNCHANGED << writer, status, pc, frame, session, store, keywords,
                    dbLock, schedRunning, now, lastCommit >>

InitAdmin == Init /\ settings.last_run_ts = NoTime

NextAdmin ==
    \/ Next
    \/ \E hours \in NewIntervals : SetInterval(hours)

SpecAdmin == InitAdmin /\ [][NextAdmin]_vars

(* ------------------------ sequences of settings writes ---------------- *)

\* the scores admin_set_min_score hands on (1.0 to 10.0), in hundredths
SampleMinScorePosts == {100, 595, 604, 625, 635, 645, 996}

\* set_min_score(score): _save_setting("min_publish_score",
\* str(round(score, 1))) in a session of its own, which fails (database is
\* locked) while a run keeps the write lock
SetMinScore(score) ==
    /\ call = NoCall
    /\ \/ /\ dbLock = NoThread
          /\ settings' = [settings EXCEPT !.min_publish_score = PyStr(Round1(score))]
          /\ call' = [NewCall("set_min_score", [score |-> score]) EXCEPT
                         !.done = TRUE, !.result = [raised |-> ""]]
       \/ /\ dbLock # NoThread
          /\ call' = [NewCall("set_min_score", [score |-> score]) EXCEPT
                         !.done = TRUE, !.result = [raised |-> "database is locked"]]
          /\ UNCHANGED settings
    /\ UNCHANGED << jobTrigger, writer, status, pc, frame, session, store, keywords,
                    dbLock, schedRunning, now, lastCommit >>

\* the request that made the call is answered; the next one can come
CallReturns ==
    /\ call # NoCall
    /\ call.done
    /\ call' = NoCall
    /\ UNCHANGED << jobTrigger, writer, status, pc, frame, session, store, settings,
                    keywords, dbLock, schedRunning, now, lastCommit >>

\* the scheduler is running with the default interval, no setting has a
\* row, and a run of thread Spawned that found nothing new is at line 124,
\* about to write last_run_ts
InitSettings ==
    /\ status = [Set(InitStatus, "done", <<"nothing_new">>) EXCEPT
                    !.running = TRUE, !.started_at = StartHour + 1]
    /\ pc = [t \in Threads |-> IF t = Spawned THEN "save_new" ELSE "idle"]
    /\ frame = [t \in Threads |->
                   IF t = Spawned
                   THEN [EmptyFrame EXCEPT !.started_at = StartHour + 1,
                                           !.phase = "done"]
                   ELSE EmptyFrame]
    /\ session = [t \in Threads |-> EmptySession]
    /\ store = <<>>
    /\ settings = [last_run_ts |-> NoTime, scrape_interval_hours |-> NoRow,
                   min_publish_score |-> NoRow]
    /\ keywords = SeedKeywords
    /\ dbLock = NoThread
    /\ schedRunning = TRUE
    /\ now = StartHour + 1
    /\ lastCommit = 0
    /\ call = NoCall
    /\ jobTrigger = DefaultIntervalHours
    /\ writer = NoWriter

NextSettings ==
    \/ \E hours \in SampleIntervals : SetInterval(hours)
    \/ \E score \in SampleMinScorePosts : SetMinScore(score)
    \/ CallReturns
    \/ SaveNothingNew(Spawned)
    \/ Finally(Spawned)

SpecSettings == InitSettings /\ [][NextSettings]_vars

(* ------------- the pipeline over the database of an earlier process ---- *)

\* the process starts over a database in which an earlier process has
\* published a batch, one hour before: its row, its last_run_ts
InitStored ==
    /\ status = InitStatus
    /\ pc = [t \in Threads |-> "idle"]
    /\ frame = [t \in Threads |-> EmptyFrame]
    /\ session = [t \in Threads |-> EmptySession]
    /\ \E u \in Urls :
          store = << [original_url |-> u, is_published |-> TRUE,
                      batch |-> StartHour - 1] >>
    /\ settings = [last_run_ts |-> StartHour - 1, scrape_interval_hours |-> NoRow,
                   min_publish_score |-> NoRow]
    /\ keywords = SeedKeywords
    /\ dbLock = NoThread
    /\ schedRunning = FALSE
    /\ now = StartHour
    /\ lastCommit = StartHour - 1
    /\ call = NoCall
    /\ jobTrigger = NoTrigger
    /\ writer = NoWriter

SpecStored == InitStored /\ [][Next]_vars

(* ---------------- _status written and read without a lock ------------- *)

\* one assignment to keys of the dict: the keys it gives a value
Apply(st, wr) == [k \in DOMAIN st |-> IF k \in DOMAIN wr THEN wr[k] ELSE st[k]]

\* _set(phase, detail, **kw): three statements, the last one only with
\* keyword arguments
SetWrites(phase, detail, kw) ==
    << [phase |-> phase], [phase_detail |-> detail] >>
        \o (IF DOMAIN kw = {} THEN <<>> ELSE <<kw>>)

\* _progress_cb(done, total, title): two statements
ProgressWrites(done, total) ==
    << [evaluated |-> done], [phase_detail |-> <<"evaluated", done, total>>] >>

\* the articles of the run whose updates are followed
RunArticles == MaxFeedLen + 1

NoKw == [k \in {} |-> 0]

\* the updates of _status one call of run_scrape_job makes, each the
\* sequence of its assignments; a statement outside _set and _progress_cb
\* is an update of its own
RunUpdates(run) ==
    LET n == RunArticles
        start == << <<[running |-> TRUE]>>, <<[started_at |-> StartHour]>>,
                    <<[evaluated |-> 0]>>, <<[total_to_evaluate |-> 0]>>,
                    SetWrites("fetching", <<"fetching">>, NoKw),
                    SetWrites("evaluating", <<"evaluated", 0, n>>,
                              [evaluated |-> 0, total_to_evaluate |-> n]) >>
        evals == [i \in 1..n |-> ProgressWrites(i, n)]
        gens  == [i \in 1..n |-> SetWrites("generating", <<"generating", i, n>>, NoKw)]
        done  == << SetWrites("done", <<"ok", n, DefaultMinScore>>, NoKw),
                    <<[last_run_at |-> StartHour]>>,
                    <<[last_run_result |-> <<"ok", n, DefaultMinScore>>]>> >>
        error == << SetWrites("error", <<"oracle reply">>, NoKw) >>
        finally == << <<[running |-> FALSE]>> >>
    IN IF run = "published" THEN start \o evals \o gens \o done \o finally
       ELSE start \o evals \o error \o finally

RECURSIVE ApplyAll(_, _)
ApplyAll(st, writes) ==
    IF writes = <<>> THEN st ELSE ApplyAll(Apply(st, Head(writes)), Tail(writes))

RECURSIVE AfterUpdates(_, _, _)
\* _status after the first k updates of a run
AfterUpdates(st, updates, k) ==
    IF k = 0 THEN st
    ELSE ApplyAll(AfterUpdates(st, updates, k - 1), updates[k])

\* the next assignment of the run is executed
WriteStep ==
    /\ writer.run # ""
    /\ writer.update <= Len(RunUpdates(writer.run))
    /\ LET upd == RunUpdates(writer.run)[writer.update]
       IN /\ status' = Apply(status, upd[writer.write])
          /\ writer' = IF writer.write = Len(upd)
                       THEN [writer EXCEPT !.update = @ + 1, !.write = 1]
                       ELSE [writer EXCEPT !.write = @ + 1]
    /\ UNCHANGED << call, jobTrigger, pc, frame, session, store, settings,
                    keywords, dbLock, schedRunning, now, lastCommit >>

\* get_status(): s = dict(_status), one copy of the dict as it is
GetStatus ==
    /\ call.fn = "get_status"
    /\ ~call.done
    /\ call' = [call EXCEPT !.done = TRUE, !.result = status]
    /\ UNCHANGED << jobTrigger, writer, status, pc, frame, session, store,
                    settings, keywords, dbLock, schedRunning, now, lastCommit >>

InitStatusReads ==
    /\ status = InitStatus
    /\ pc = [t \in Threads |-> "idle"]
    /\ frame = [t \in Threads |-> EmptyFrame]
    /\ session = [t \in Threads |-> EmptySession]
    /\ store = <<>>
    /\ settings = [last_run_ts |-> NoTime, scrape_interval_hours |-> NoRow,
                   min_publish_score |-> NoRow]
    /\ keywords = SeedKeywords
    /\ dbLock = NoThread
    /\ schedRunning = TRUE
    /\ now = StartHour
    /\ lastCommit = 0
    /\ call = NewCall("get_status", <<>>)
    /\ jobTrigger = DefaultIntervalHours
    /\ writer \in {[run |-> r, update |-> 1, write |-> 1] : r \in {"published", "failed"}}

NextStatusReads == WriteStep \/ GetStatus

SpecStatusReads == InitStatusReads /\ [][NextStatusReads]_vars

(* ------------------- evaluate_batch on its own ------------------------ *)

\* the batches handed to evaluate_batch: n articles with the links
\* start, start + step, ..: step 1 mixes the four kinds of text, step 4
\* makes every text of one kind
BatchStarts == 1..4
BatchSteps == {1, 4}
Batch(n, start, step) ==
    [i \in 1..n |-> [url  |-> start + step * (i - 1),
                     text |-> TextOf(start + step * (i - 1))]]

\* the oracle's answer for an article: a score for most, text that is not
\* JSON for every third link, a transport error for every fifth
OracleReplyFor(u) ==
    IF u % 3 = 0 THEN [kind |-> "malformed", score |-> Num(0)]
    ELSE IF u % 5 = 0 THEN [kind |-> "api_error", score |-> Num(0)]
         ELSE [kind |-> "json", score |-> Num(9000)]

\* evaluate_batch, step 4 and the return: the value handed back to the
\* caller
ReturnBatch(t) ==
    /\ pc[t] = "select"
    /\ frame' = [frame EXCEPT ![t].ranked =
                    FinishBatch(frame[t].new_articles, frame[t].pre_sorted)]
    /\ Goto(t, "returned")
    /\ UNCHANGED << call, jobTrigger, writer, status, session, store, settings, keywords, dbLock,
                    schedRunning, now, lastCommit >>

\* a run of thread Spawned at line 137, about to call evaluate_batch with a
\* batch of 1..MaxBatch new articles
InitEval ==
    /\ \E n \in 1..MaxBatch, start \in BatchStarts, step \in BatchSteps :
          LET will_eval == Min2(n, MAX_CLAUDE_EVALS)
              fr == [EmptyFrame EXCEPT !.started_at = StartHour + 1]
          IN /\ frame = [t \in Threads |->
                            IF t = Spawned
                            THEN EnterBatch(fr, Batch(n, start, step), SeedKeywords)
                            ELSE EmptyFrame]
             /\ status = [InitStatus EXCEPT
                            !.running = TRUE, !.started_at = StartHour + 1,
                            !.phase = "evaluating",
                            !.phase_detail = <<"evaluated", 0, will_eval>>,
                            !.total_to_evaluate = will_eval]
    /\ pc = [t \in Threads |-> IF t = Spawned THEN "eval_oracle" ELSE "idle"]
    /\ session = [t \in Threads |-> EmptySession]
    /\ store = <<>>
    /\ settings = [last_run_ts |-> NoTime, scrape_interval_hours |-> NoRow,
                   min_publish_score |-> NoRow]
    /\ keywords = SeedKeywords
    /\ dbLock = NoThread
    /\ schedRunning = TRUE
    /\ now = StartHour + 1
    /\ lastCommit = 0
    /\ call = NoCall
    /\ jobTrigger = NoTrigger
    /\ writer = NoWriter

\* the loop of step 3 with the oracle answering, then the return
EvalNext ==
    LET cands == Candidates(frame[Spawned].pre_sorted)
        a == frame[Spawned].new_articles[cands[frame[Spawned].idx]]
    IN EvalOracleWith(Spawned, OracleReplyFor(a.url))

NextEval == EvalNext \/ ReturnBatch(Spawned)

SpecEval == InitEval /\ [][NextEval]_vars

(* --------------------- single calls of the functions ------------------ *)

\* ledgers the seeding and the admin actions can leave in the table: the
\* seed, none, entries with heavy weights, and entries whose weight was
\* overwritten with a negative number (admin_keywords_add on an existing
\* word stores the weight as given)
SampleLedgers ==
    { SeedKeywords,
      <<>>,
      << [word |-> "success", weight |-> 1000, keyword_type |-> "positive"],
         [word |-> "war",     weight |-> 1000, keyword_type |-> "negative"] >>,
      << [word |-> "success", weight |-> 0 - 20, keyword_type |-> "positive"],
         [word |-> "war",     weight |-> 0 - 20, keyword_type |-> "negative"] >> }

\* numbers an oracle reply can carry (thousandths)
SampleScores ==
    { Num(v) : v \in {0 - 1000000, 0 - 5, 0, 995, 1000, 5500, 7125, 7135,
                      7334, 9996, 10000, 10004, 1000000} }
        \cup {NaN, PosInf, NegInf}

SampleReplies ==
    {[kind |-> "json", score |-> x] : x \in SampleScores}
        \cup {[kind |-> k, score |-> Num(0)] : k \in {"malformed", "api_error", "unexpected"}}

SampleArticles == {[url |-> u, text |-> TextOf(u)] : u \in 1..Len(TextKinds)}

\* evaluate_article as its caller sees it: the evaluation dict, or the
\* exception it lets through
EvaluateArticleOutcome(article, kws, reply) ==
    IF reply.kind = "unexpected"
    THEN [raised |-> TRUE,  value |-> [score |-> 0, reason |-> ""]]
    ELSE [raised |-> FALSE, value |-> EvaluateArticleDict(article, kws, reply)]

EvaluateArticleCalls ==
    { NewCall("evaluate_article", [article |-> a, keywords |-> k, reply |-> r]) :
          a \in SampleArticles, k \in SampleLedgers, r \in SampleReplies }

SkippedScoreCalls ==
    { NewCall("skipped_score", [article |-> a, keywords |-> k]) :
          a \in SampleArticles, k \in SampleLedgers }

CallEvaluateArticle ==
    /\ call.fn = "evaluate_article"
    /\ ~call.done
    /\ call' = [call EXCEPT !.done = TRUE,
                            !.result = EvaluateArticleOutcome(
                                call.arg.article, call.arg.keywords, call.arg.reply)]
    /\ UNCHANGED << jobTrigger, writer, status, pc, frame, session, store, settings, keywords,
                    dbLock, schedRunning, now, lastCommit >>

\* step 1 and step 4 of evaluate_batch for an article behind the budget
CallSkippedScore ==
    /\ call.fn = "skipped_score"
    /\ ~call.done
    /\ call' = [call EXCEPT !.done = TRUE,
                            !.result = SkippedScore(
                                KeywordBoost(call.arg.article.text, call.arg.keywords))]
    /\ UNCHANGED << jobTrigger, writer, status, pc, frame, session, store, settings, keywords,
                    dbLock, schedRunning, now, lastCommit >>

\* the pre-scores _keyword_boost can give an article
PreScores == (0 - BoostMax) .. BoostMax

SkipArticleCalls == { NewCall("skip_article", [pre |-> p]) : p \in PreScores }

\* step 4 of evaluate_batch for one article behind the budget
CallSkipArticle ==
    /\ call.fn = "skip_article"
    /\ ~call.done
    /\ call' = [call EXCEPT !.done = TRUE, !.result = SkippedEvaluation(call.arg.pre)]
    /\ UNCHANGED << jobTrigger, writer, status, pc, frame, session, store, settings, keywords,
                    dbLock, schedRunning, now, lastCommit >>

\* the text of an article and the words of the ledger as strings of
\* characters
UpperToLower ==
    ("A" :> "a") @@ ("D" :> "d") @@ ("J" :> "j") @@ ("O" :> "o") @@
    ("R" :> "r") @@ ("W" :> "w") @@ ("Y" :> "y")

\* str.lower()
LowerStr(str) ==
    [i \in 1..Len(str) |->
        IF str[i] \in DOMAIN UpperToLower THEN UpperToLower[str[i]] ELSE str[i]]

\* w in str
IsSubstring(w, str) ==
    \E i \in 0..(Len(str) - Len(w)) : SubSeq(str, i + 1, i + Len(w)) = w

\* the characters of the words of the sample ledgers
Spelling ==
    ("award" :> <<"a", "w", "a", "r", "d">>) @@
    ("war" :> <<"w", "a", "r">>) @@
    ("joy" :> <<"j", "o", "y">>) @@
    ("raw" :> <<"r", "a", "w">>)

\* the membership test without lowering the text
WordsInCaseSensitive(str, kws) ==
    { kws[i].word : i \in { j \in 1..Len(kws) :
          IsSubstring(LowerStr(Spelling[kws[j].word]), str) } }

\* the ledger words kw with kw.word.lower() in text_lower
WordsIn(str, kws) ==
    { kws[i].word : i \in { j \in 1..Len(kws) :
          IsSubstring(LowerStr(Spelling[kws[j].word]), LowerStr(str)) } }

\* _keyword_boost(text, keywords) on a string
KeywordBoostOfString(str, kws) == KeywordBoost(WordsIn(str, kws), kws)

\* ledger entries: a light positive word, a negative word inside it, a
\* heavy positive word, and a negative word stored with a negative weight
LedgerPool ==
    { [word |-> "award", weight |-> 9,       keyword_type |-> "positive"],
      [word |-> "war",   weight |-> 20,      keyword_type |-> "negative"],
      [word |-> "joy",   weight |-> 150,     keyword_type |-> "positive"],
      [word |-> "raw",   weight |-> 0 - 130, keyword_type |-> "negative"] }

\* every ledger over the pool, in every order (the word column is unique)
PoolLedgers ==
    { l \in SeqsUpTo(LedgerPool, Cardinality(LedgerPool)) :
          \A i, j \in 1..Len(l) : l[i] = l[j] => i = j }

\* texts, each with the ledger words a reader finds in it
SampleTexts ==
    { [chars |-> <<"A", "w", "a", "r", "d">>,
       contains |-> {"award", "war"}],
      [chars |-> <<"W", "A", "R">>,
       contains |-> {"war"}],
      [chars |-> <<"J", "o", "y">>,
       contains |-> {"joy"}],
      [chars |-> <<"r", "a", "w", " ", "j", "o", "y">>,
       contains |-> {"raw", "joy"}],
      [chars |-> <<"a", "w">>,
       contains |-> {}],
      [chars |-> <<"A", " ", "R", "A", "W", " ", "W", "A", "R">>,
       contains |-> {"raw", "war"}],
      [chars |-> <<>>,
       contains |-> {}] }

KeywordBoostCalls ==
    { NewCall("keyword_boost", [text |-> t, keywords |-> l]) :
          t \in SampleTexts, l \in PoolLedgers }

CallKeywordBoost ==
    /\ call.fn = "keyword_boost"
    /\ ~call.done
    /\ call' = [call EXCEPT !.done = TRUE,
                            !.result = KeywordBoostOfString(
                                call.arg.text.chars, call.arg.keywords)]
    /\ UNCHANGED << jobTrigger, writer, status, pc, frame, session, store, settings, keywords,
                    dbLock, schedRunning, now, lastCommit >>

\* score-descending lists as evaluate_batch returns them: n articles, the
\* first hi of them at 7.0, the others at 5.0
SampleRanked ==
    { [i \in 1..n |-> [url |-> i, positivity_score |-> IF i <= hi THEN 700 ELSE 500]] :
          n \in 0..(TopN + 2), hi \in 0..(TopN + 2) }

\* the values the admin can give the two selection settings
SampleMinScores == {ScoreMin, DefaultMinScore, ScoreMax}
SampleMaxArticles == {1, TopN, TopN + 2}

\* the selection of run_scrape_job (lines 140-142) with the settings table
\* holding min_publish_score and max_articles
SelectCalls ==
    { NewCall("select", [ranked |-> r, min_score |-> m, max_articles |-> x]) :
          r \in SampleRanked, m \in SampleMinScores, x \in SampleMaxArticles }

CallSelect ==
    /\ call.fn = "select"
    /\ ~call.done
    /\ call' = [call EXCEPT !.done = TRUE,
                            !.result = Top6(Eligible(call.arg.ranked, call.arg.min_score))]
    /\ UNCHANGED << jobTrigger, writer, status, pc, frame, session, store, settings, keywords,
                    dbLock, schedRunning, now, lastCommit >>

\* feed documents for single calls of fetch_all_feeds: longer than the
\* feeds of a run, with links repeated inside a feed and across feeds
\* a document with two entries more than fetch_feed reads, its links
\* numbered from base + 1
LongFeedBases == {10, 40}
LongFeed(base) == [ok |-> TRUE, urls |-> [i \in 1..(FeedCap + 2) |-> base + i]]

SampleFeedReplies ==
    {[ok |-> TRUE, urls |-> us] : us \in SeqsUpTo(Urls, MaxFeedLen + 2)}
        \cup {[ok |-> FALSE, urls |-> <<>>]}
        \cup {LongFeed(base) : base \in LongFeedBases}

FetchAllFeedsCalls ==
    { NewCall("fetch_all_feeds", [sources |-> srcs, replies |-> r]) :
          srcs \in SUBSET SourceIds, r \in [SourceIds -> SampleFeedReplies] }

CallFetchAllFeeds ==
    /\ call.fn = "fetch_all_feeds"
    /\ ~call.done
    /\ call' = [call EXCEPT !.done = TRUE,
                            !.result = FetchAllFeeds(call.arg.sources, call.arg.replies)]
    /\ UNCHANGED << jobTrigger, writer, status, pc, frame, session, store, settings, keywords,
                    dbLock, schedRunning, now, lastCommit >>

\* documents for single calls of fetch_feed: n entries with the links
\* 1..n; every entry sound; every third title only a tag and every fifth
\* entry without a link; the first three entries unusable (no title, a
\* blank title, no link); no entry with a title
EntryPatterns == {"sound", "mixed", "bad_start", "untitled"}
DocumentLengths == {0, 1, FeedCap - 1, FeedCap, FeedCap + 1, FeedCap + 3}
Document(n, pattern) ==
    [i \in 1..n |->
        CASE pattern = "sound" -> [title |-> "title", link |-> i]
          [] pattern = "mixed" ->
                [title |-> IF i % 3 = 0 THEN "<b></b>" ELSE "<b>title</b>",
                 link  |-> IF i % 5 = 0 THEN NoLink ELSE i]
          [] pattern = "bad_start" ->
                [title |-> IF i = 1 THEN "" ELSE IF i = 2 THEN " " ELSE "title",
                 link  |-> IF i = 3 THEN NoLink ELSE i]
          [] OTHER -> [title |-> "", link |-> i]]

FetchFeedCalls ==
    { NewCall("fetch_feed", [src |-> "src_a", entries |-> Document(n, p)]) :
          n \in DocumentLengths, p \in EntryPatterns }

\* fetch_feed for a document that was fetched and parsed
CallFetchFeed ==
    /\ call.fn = "fetch_feed"
    /\ ~call.done
    /\ call' = [call EXCEPT !.done = TRUE,
                            !.result = FeedArticles(call.arg.src, call.arg.entries)]
    /\ UNCHANGED << jobTrigger, writer, status, pc, frame, session, store, settings, keywords,
                    dbLock, schedRunning, now, lastCommit >>

\* admin_keywords_add(word, weight, keyword_type) on the keywords table,
\* the word already stripped and lowered: no word, nothing; a word the
\* table holds gets the weight and the type as posted; a new word is added
\* with abs(weight)
AdminKeywordsAdd(kws, word, weight, keyword_type) ==
    IF word = "" THEN kws
    ELSE IF \E i \in 1..Len(kws) : kws[i].word = word
         THEN [i \in 1..Len(kws) |->
                  IF kws[i].word = word
                  THEN [kws[i] EXCEPT !.weight = weight, !.keyword_type = keyword_type]
                  ELSE kws[i]]
         ELSE Append(kws, [word |-> word, weight |-> Abs(weight),
                           keyword_type |-> keyword_type])

RECURSIVE AdminKeywordsAddAll(_, _)
\* the table after a sequence of posts to /admin/keywords/add
AdminKeywordsAddAll(kws, posts) ==
    IF posts = <<>> THEN kws
    ELSE AdminKeywordsAddAll(
             AdminKeywordsAdd(kws, Head(posts).word, Head(posts).weight,
                              Head(posts).keyword_type),
             Tail(posts))

\* what an administrator posts: a word of the table, a new word or no
\* word; a weight (tenths) below, at or above zero; one of the two types
KeywordPosts ==
    { [word |-> w, weight |-> x, keyword_type |-> ty] :
          w \in {"success", "calm", ""}, x \in {0 - 20, 0 - 5, 0, 15},
          ty \in {"positive", "negative"} }

\* the tables the posts are made to: an empty one, and two seeded entries
StartLedgers == { <<>>, << SeedKeywords[1], SeedKeywords[9] >> }

AdminKeywordsAddCalls ==
    { NewCall("admin_keywords_add", [keywords |-> k, posts |-> ps]) :
          k \in StartLedgers, ps \in SeqsUpTo(KeywordPosts, 2) \ {<<>>} }

CallAdminKeywordsAdd ==
    /\ call.fn = "admin_keywords_add"
    /\ ~call.done
    /\ call' = [call EXCEPT !.done = TRUE,
                            !.result = AdminKeywordsAddAll(call.arg.keywords,
                                                           call.arg.posts)]
    /\ UNCHANGED << jobTrigger, writer, status, pc, frame, session, store, settings, keywords,
                    dbLock, schedRunning, now, lastCommit >>

\* ------------------------- generate_article -------------------------
\* JSON values and Python strings, as far as generate_article looks at
\* them: a string is its text and its length
Str(v, len) == [t |-> "str", v |-> v, len |-> len]
Absent == [t |-> "absent"]
JsonNull == [t |-> "null"]
JsonInt == [t |-> "int"]
JsonList == [t |-> "list"]

\* the length the headline is cut to
HeadlineCut == 500

\* x[:500]: a str or a list is sliced, anything else has no __getitem__
\* for a slice
CanSlice(x) == x.t \in {"str", "list"}
Slice500(x) == IF x.t = "str" THEN [x EXCEPT !.len = Min2(@, HeadlineCut)] ELSE x

\* d.get(key, default) of a parsed object whose key may be absent
Get(field, default) == IF field = Absent THEN default ELSE field

\* what the generation oracle can do: the credential is missing, the
\* request fails, the message has no content block, the text holds no
\* JSON, the text is JSON but no object (json.loads gives a list, a number
\* or None), the text between the braces is no JSON, or it is an object
FieldValues == {Absent, JsonNull, JsonInt, JsonList,
                Str("generated", 80), Str("generated", 600)}
GenReplies ==
    {[kind |-> k, headline |-> Absent, content |-> Absent, image_query |-> Absent] :
        k \in {"missing_credential", "api_error", "empty_content", "no_json",
               "bare_json", "invalid_json"}}
    \cup {[kind |-> "object", headline |-> h, content |-> c, image_query |-> q] :
            h \in FieldValues, c \in {Absent, JsonNull, Str("body", 2000)},
            q \in {Absent, JsonInt, Str("sunrise", 7)}}

\* the fallbacks of the two except clauses and the default of the return
ParseFallbackQuery == Str("happy people", 12)
ApiFallbackQuery == Str("positive", 8)
DefaultQuery == Str("positive news", 13)

GenRaised(e) == [raised |-> e, value |-> <<>>]
GenReturned(h, c, q) ==
    [raised |-> "", value |-> [headline |-> h, content |-> c, image_query |-> q]]

\* generate_article(article) for a behaviour of the oracle: the exception
\* that leaves the function, or the dict it returns
GenerateArticle(article, reply) ==
    LET title == article.title
        description == Get(article.description, Str("", 0))
    IN CASE reply.kind = "missing_credential" -> GenRaised("KeyError")
         [] reply.kind = "api_error" ->
                GenReturned(title, description, ApiFallbackQuery)
         [] reply.kind = "empty_content" -> GenRaised("IndexError")
         [] reply.kind \in {"no_json", "invalid_json"} ->
                GenReturned(title, description, ParseFallbackQuery)
         [] reply.kind = "bare_json" -> GenRaised("AttributeError")
         [] OTHER ->
                LET h == Get(reply.headline, title)
                IN IF CanSlice(h)
                   THEN GenReturned(Slice500(h), Get(reply.content, Str("", 0)),
                                    Get(reply.image_query, DefaultQuery))
                   ELSE GenRaised("TypeError")

SampleRawArticles ==
    {[title |-> Str("original title", n), description |-> d] :
        n \in {40, 700}, d \in {Absent, Str("original description", 200)}}

GenerateArticleCalls ==
    { NewCall("generate_article", [article |-> a, reply |-> r]) :
          a \in SampleRawArticles, r \in GenReplies }

CallGenerateArticle ==
    /\ call.fn = "generate_article"
    /\ ~call.done
    /\ call' = [call EXCEPT !.done = TRUE,
                            !.result = GenerateArticle(call.arg.article, call.arg.reply)]
    /\ UNCHANGED << jobTrigger, writer, status, pc, frame, session, store, settings, keywords,
                    dbLock, schedRunning, now, lastCommit >>

\* ----------------------------- find_image -----------------------------
FALLBACK_IMAGE == "https://images.unsplash.com/photo-1504711434969-e33886168f5c?w=800&q=80"
RetryQuery == "positive news happiness"

\* what the image service can do with one request: no connection, a 4xx/5xx
\* status, a body that is no JSON, JSON that is no object, an object whose
\* "results" is a number, a photo without one of the keys, a photo that is
\* no object, no results, a photo with or without alt_description
ImgReplyKinds ==
    {"unreachable", "http_error", "not_json", "json_not_object",
     "results_not_list", "photo_missing_key", "photo_wrong_type", "zero",
     "photo", "photo_no_alt"}

ImgRaised(e) == [raised |-> e, value |-> <<>>]
ImgReturned(url, alt, photographer, photographer_url) ==
    [raised |-> "",
     value |-> [url |-> url, alt |-> alt, photographer |-> photographer,
                photographer_url |-> photographer_url]]

\* the return after the except clauses, and the return without a key
FallbackDescriptor(query) == ImgReturned(FALLBACK_IMAGE, query, "", "")

RECURSIVE FindImage(_, _, _, _, _)
\* find_image(query): the k-th request to the service is answered by
\* script[k], every request after the script by rest; a service that has
\* no results for any further request makes the recursion of line 41 run
\* until the interpreter's stack is used up
FindImage(query, has_key, script, rest, k) ==
    IF ~has_key THEN FallbackDescriptor(query)
    ELSE LET r == IF k <= Len(script) THEN script[k] ELSE rest
         IN CASE r = "zero" ->
                    IF k > Len(script) THEN ImgRaised("RecursionError")
                    ELSE FindImage(RetryQuery, has_key, script, rest, k + 1)
              [] r \in {"unreachable", "http_error", "not_json", "photo_missing_key"} ->
                    FallbackDescriptor(query)
              [] r = "json_not_object" -> ImgRaised("AttributeError")
              [] r \in {"results_not_list", "photo_wrong_type"} -> ImgRaised("TypeError")
              [] r = "photo" -> ImgReturned("photo_url", "photo_alt", "name", "html")
              [] OTHER -> ImgReturned("photo_url", query, "name", "html")

RECURSIVE FindImageRequests(_, _, _, _)
\* the requests.get calls one find_image call makes, the recursive calls
\* included: a number, or no bound when the recursion does not end by
\* itself
FindImageRequests(has_key, script, rest, k) ==
    IF ~has_key THEN [bounded |-> TRUE, n |-> 0]
    ELSE LET r == IF k <= Len(script) THEN script[k] ELSE rest
         IN IF r = "zero"
            THEN IF k > Len(script) THEN [bounded |-> FALSE, n |-> k]
                 ELSE LET inner == FindImageRequests(has_key, script, rest, k + 1)
                      IN [inner EXCEPT !.n = @ + 1]
            ELSE [bounded |-> TRUE, n |-> 1]

FindImageCalls ==
    { NewCall("find_image", [query |-> "sunrise", has_key |-> h, script |-> sc, rest |-> r]) :
          h \in BOOLEAN, sc \in SeqsUpTo(ImgReplyKinds, 2), r \in ImgReplyKinds }

CallFindImage ==
    /\ call.fn = "find_image"
    /\ ~call.done
    /\ call' = [call EXCEPT !.done = TRUE,
                            !.result = FindImage(call.arg.query, call.arg.has_key,
                                                 call.arg.script, call.arg.rest, 1)]
    /\ UNCHANGED << jobTrigger, writer, status, pc, frame, session, store, settings, keywords,
                    dbLock, schedRunning, now, lastCommit >>

\* ---------------------------- start_scheduler ------------------------
\* the threads start_scheduler makes for a stored last_run_ts, an interval
\* and a clock reading, all in hours
StartupThreads(stored, hours, time) ==
    IF CatchUpDue(LastRunTsOf(stored), hours, time) THEN 1 ELSE 0

StartSchedulerCalls ==
    { NewCall("start_scheduler", [stored |-> st, hours |-> h, time |-> StartHour]) :
          h \in SampleIntervals,
          st \in {NoTime} \cup {StartHour - d : d \in 0 - 1 .. 25} }

CallStartScheduler ==
    /\ call.fn = "start_scheduler"
    /\ ~call.done
    /\ call' = [call EXCEPT !.done = TRUE,
                            !.result = [threads |-> StartupThreads(call.arg.stored,
                                                       call.arg.hours, call.arg.time)]]
    /\ UNCHANGED << jobTrigger, writer, status, pc, frame, session, store, settings, keywords,
                    dbLock, schedRunning, now, lastCommit >>

PureCalls ==
    EvaluateArticleCalls \cup SkippedScoreCalls \cup KeywordBoostCalls
        \cup SelectCalls \cup FetchAllFeedsCalls \cup GenerateArticleCalls
        \cup FindImageCalls \cup StartSchedulerCalls \cup SkipArticleCalls
        \cup FetchFeedCalls \cup AdminKeywordsAddCalls

InitPure ==
    /\ status = InitStatus
    /\ pc = [t \in Threads |-> "idle"]
    /\ frame = [t \in Threads |-> EmptyFrame]
    /\ session = [t \in Threads |-> EmptySession]
    /\ store = <<>>
    /\ settings = [last_run_ts |-> NoTime, scrape_interval_hours |-> NoRow,
                   min_publish_score |-> NoRow]
    /\ keywords = SeedKeywords
    /\ dbLock = NoThread
    /\ schedRunning = FALSE
    /\ now = StartHour
    /\ lastCommit = 0
    /\ call \in PureCalls
    /\ jobTrigger = NoTrigger
    /\ writer = NoWriter

NextPure ==
    \/ CallEvaluateArticle
    \/ CallSkippedScore
    \/ CallKeywordBoost
    \/ CallSelect
    \/ CallFetchAllFeeds
    \/ CallGenerateArticle
    \/ CallFindImage
    \/ CallStartScheduler
    \/ CallSkipArticle
    \/ CallFetchFeed
    \/ CallAdminKeywordsAdd

SpecPure == InitPure /\ [][NextPure]_vars

(* ------------------------------ properties ---------------------------- *)

\* thread t is inside run_scrape_job past line 92: it took the guard and
\* has not yet run the finally clause
InRun(t) == pc[t] \notin {"idle", "check", "acquire"}

\* thread t takes the step
Moved(t) == pc'[t] # pc[t] \/ frame'[t] # frame[t] \/ session'[t] # session[t]

FlaggedRows == {i \in 1..Len(store) : store[i].is_published}

\* C1: at most one run is in progress at any time: no two threads are past
\* the guard of run_scrape_job together.
SingleFlight == Cardinality({t \in Threads : InRun(t)}) <= 1

\* C2: a run that fails leaves the article table as it was: every step of a
\* run except its successful db.commit() (so every staging step of the
\* generating phase, the raise, the except and the finally clause) leaves
\* the committed rows and their flags unchanged.
AtomicPublish ==
    [][\A t \in Threads :
          (Moved(t) /\ ~(pc[t] = "commit" /\ pc'[t] = "save_ok"))
              => store' = store]_vars

\* a run raised in the generating phase or at the commit, with the flags
\* cleared and articles staged in its open transaction, while the table
\* holds flagged rows
RaisedWithStagedBatch ==
    \E t \in Threads :
        /\ pc[t] = "except"
        /\ frame[t].error \in {"generate", "commit"}
        /\ session[t].cleared
        /\ session[t].pending # <<>>
        /\ FlaggedRows # {}

\* C3: no two rows of the article table have the same original_url.
UrlUnique ==
    \A i, j \in 1..Len(store) :
        store[i].original_url = store[j].original_url => i = j

\* C4: in every committed state of the table the flagged rows are exactly
\* the rows of the batch committed last.
NewestBatchFlag ==
    \A i \in 1..Len(store) : store[i].is_published <=> store[i].batch = lastCommit

\* the table holds a flagged batch and an older, unflagged one
TwoBatchesStored ==
    /\ FlaggedRows # {}
    /\ \E j \in 1..Len(store) : ~store[j].is_published

\* C5: whenever no thread is inside a run the guard is down, whatever exit
\* the last run took.
GuardReleased == (\A t \in Threads : ~InRun(t)) => ~status.running

\* a run that ended through the except clause, and nobody running
EndedByException ==
    /\ \A t \in Threads : pc[t] = "idle"
    /\ status.phase = "error"
    /\ status.phase_detail[1] = "exception"
    /\ ~status.running

\* C6: a call of run_scrape_job that finds the guard up returns at once: it
\* changes no field of _status, no setting and no article, and leaves
\* nothing behind that would start a run later.
SkipIsNoOp ==
    [][\A t \in Threads :
          (pc[t] = "check" /\ status.running /\ pc'[t] # "check")
              => /\ pc'[t] = "idle"
                 /\ status' = status
                 /\ settings' = settings
                 /\ store' = store
                 /\ frame' = frame
                 /\ session' = session]_vars

\* a trigger arrived while another thread is inside a run with the guard up
TriggeredWhileRunning ==
    \E t, u \in Threads :
        /\ pc[t] = "check"
        /\ status.running
        /\ InRun(u)

\* the number of steps thread t has at most left in its run: every loop of
\* run_scrape_job counts up to a fixed length
RunRank(t) ==
    CASE pc[t] = "finally" -> 1
      [] pc[t] = "except" -> 2
      [] pc[t] \in {"save_new", "save_elig", "save_ok"} -> 3
      [] pc[t] = "commit" -> 4
      [] pc[t] = "generate" -> 5 + (Len(frame[t].top6) - frame[t].idx)
      [] pc[t] = "unflag" -> 5 + TopN
      [] pc[t] = "select" -> 6 + TopN
      [] pc[t] = "eval_oracle" ->
            7 + TopN + (Len(Candidates(frame[t].pre_sorted)) - frame[t].idx)
      [] pc[t] = "fetch" -> 7 + TopN + MAX_CLAUDE_EVALS
      [] OTHER -> 0

\* C7: every run that took the guard ends: each of its steps brings it
\* nearer to the finally clause (RunRank falls), and it reaches the finally
\* clause only after it has set the phase to done or to error, never with
\* fetching, evaluating or generating as the phase it set last.
RunEndsDoneOrError ==
    [][\A t \in Threads :
          Moved(t) =>
              /\ InRun(t) => RunRank(t)' < RunRank(t)
              /\ pc'[t] = "finally" => frame'[t].phase \in {"done", "error"}]_vars

\* a run that raised in the generating phase is at its finally clause
EndsAfterGenerating ==
    \E t \in Threads :
        /\ pc[t] = "finally"
        /\ frame[t].error = "generate"
        /\ frame[t].phase = "error"

\* C8: when a run reaches the finally clause, last_run_ts has been written
\* since the run started.
TimestampWritten ==
    \A t \in Threads :
        pc[t] = "finally" => settings.last_run_ts >= frame[t].started_at

\* C9: when a run reaches the finally clause, last_run_at (and with it
\* last_run_result) has been set since the run started.
ResultRecorded ==
    \A t \in Threads :
        pc[t] = "finally" => status.last_run_at >= frame[t].started_at


\* C10: evaluate_batch asks the oracle once for each of the first
\* min(N, MAX_CLAUDE_EVALS) articles of the pre-sorted batch of N, in that
\* order, never more and never for an article behind them; every article
\* behind them comes back with a score from 1.0 to 4.0.
OracleBudget ==
    LET fr    == frame[Spawned]
        n     == Len(fr.new_articles)
        m     == Min2(n, MAX_CLAUDE_EVALS)
        calls == fr.oracle_calls
        url(k) == fr.new_articles[fr.pre_sorted[k]].url
    IN /\ pc[Spawned] \in {"eval_oracle", "select", "returned"} => Len(calls) <= m
       /\ pc[Spawned] \in {"select", "returned"} =>
             /\ Len(calls) = m
             /\ \A k \in 1..m : calls[k] = url(k)
             /\ \A k \in (m + 1)..n : url(k) \notin Range(calls)
       /\ pc[Spawned] = "returned" =>
             /\ Len(fr.ranked) = n
             /\ \A k \in (m + 1)..n :
                   \E r \in 1..n :
                       /\ fr.ranked[r].url = url(k)
                       /\ fr.ranked[r].positivity_score >= SkippedMin
                       /\ fr.ranked[r].positivity_score <= SkippedMax

\* a batch larger than the budget has come back, with a skipped article
\* whose score was cut to the upper end and one cut to the lower end
BatchOverBudgetReturned ==
    /\ pc[Spawned] = "returned"
    /\ Len(frame[Spawned].new_articles) > MAX_CLAUDE_EVALS
    /\ \E r \in 1..Len(frame[Spawned].ranked) :
          /\ frame[Spawned].ranked[r].score_reason = "Pre-filtrovano"
          /\ frame[Spawned].ranked[r].positivity_score \in {SkippedMin, SkippedMax}

\* C11: every score evaluate_batch hands back lies in [1.0, 10.0]: the
\* score evaluate_article returns for any number in the oracle's reply
\* (NaN and the infinities included) and any ledger, the neutral default,
\* and the score of a skipped article.
FinalScoreBounds ==
    /\ (call.fn = "evaluate_article" /\ call.done /\ ~call.result.raised) =>
          /\ call.result.value.score >= ScoreMin
          /\ call.result.value.score <= ScoreMax
    /\ (call.fn = "skipped_score" /\ call.done) =>
          /\ call.result >= ScoreMin
          /\ call.result <= ScoreMax

\* evaluate_article returned for a reply whose number, with the boost, is
\* far above the scale
HugeScoreEvaluated ==
    /\ call.fn = "evaluate_article"
    /\ call.done
    /\ call.arg.reply.kind = "json"
    /\ call.arg.reply.score = Num(1000000)
    /\ call.result.value.score = ScoreMax

RECURSIVE SumOver(_, _)
\* the sum of f over a finite set
SumOver(S, f) ==
    IF S = {} THEN 0
    ELSE LET x == CHOOSE y \in S : TRUE IN f[x] + SumOver(S \ {x}, f)

\* the boost the ledger entries found in a text add up to, entry by entry
\* as a set: +weight x 0.3 for positive, -|weight| x 0.3 for negative
\* entries, cut to [-3.0, 3.0]
ExpectedBoost(text, kws) ==
    LET hits == {e \in Range(kws) : e.word \in text.contains}
        part == [e \in hits |-> IF e.keyword_type = "positive"
                                THEN e.weight * 3
                                ELSE 0 - (IF e.weight < 0 THEN 0 - e.weight ELSE e.weight) * 3]
        raw  == SumOver(hits, part)
    IN IF raw < 0 - BoostMax THEN 0 - BoostMax
       ELSE IF raw > BoostMax THEN BoostMax ELSE raw

OracleFailureContained ==
    \A t \in Threads : ~(pc[t] = "except" /\ frame[t].error = "oracle reply")

\* C14: the selected batch is the prefix of the ranked list made of the
\* articles at or above the minimum score, every selected article is at or
\* above it, no article left out for the threshold outranks a selected one,
\* and the batch is no longer than the max-articles setting.
SelectorHonoursSettings ==
    (call.fn = "select" /\ call.done) =>
        LET ranked == call.arg.ranked
            top    == call.result
            atOrAbove == {i \in 1..Len(ranked) :
                             ranked[i].positivity_score >= call.arg.min_score}
        IN /\ \A k \in 1..Len(top) : top[k].positivity_score >= call.arg.min_score
           /\ \A k \in 1..Len(top) :
                 \E i \in atOrAbove :
                     /\ ranked[i] = top[k]
                     /\ Cardinality({j \in atOrAbove : j < i}) = k - 1
           /\ Len(top) <= call.arg.max_articles
           /\ Len(top) = Min2(Cardinality(atOrAbove), call.arg.max_articles)

\* C15: a run that found no article at or above the minimum score has set
\* phase done with the message naming the minimum and the best score, and
\* from there it goes to its finally clause with phase done still the last
\* phase it set and the article table unchanged.
NothingEligibleEndsDone ==
    [][\A t \in Threads :
          /\ (pc[t] = "select" /\ pc'[t] = "save_elig") =>
                /\ status'.phase = "done"
                /\ status'.phase_detail[1] = "none_eligible"
                /\ status'.phase_detail[2] = GetMinScore
                /\ store' = store
          /\ (pc[t] = "save_elig" /\ pc'[t] # "save_elig") =>
                /\ pc'[t] = "finally"
                /\ frame'[t].phase = "done"
                /\ store' = store]_vars

\* C16: fetch_all_feeds returns a list whatever sources fail, and the list
\* holds the link of every candidate of an enabled source that did not fail.
FetchSurvivesFailures ==
    (call.fn = "fetch_all_feeds" /\ call.done) =>
        \A src \in call.arg.sources :
            call.arg.replies[src].ok =>
                LET candidates == FetchFeed(src, call.arg.replies[src])
                IN \A i \in 1..Len(candidates) :
                       \E k \in 1..Len(call.result) :
                           call.result[k].url = candidates[i].url

\* the first source failed and the second, which served entries, is in the
\* result
FirstSourceFailed ==
    /\ call.fn = "fetch_all_feeds"
    /\ call.done
    /\ call.arg.sources = SourceIds
    /\ ~call.arg.replies[SourceOrder[1]].ok
    /\ call.arg.replies[SourceOrder[2]].ok
    /\ call.result # <<>>
    /\ \A k \in 1..Len(call.result) : call.result[k].source_name = SourceOrder[2]

\* the position in a list of the first entry that carries a URL
FirstIndex(all, url) ==
    CHOOSE i \in 1..Len(all) :
        all[i].url = url /\ \A j \in 1..(i - 1) : all[j].url # url

UrlsOf(articles) == {articles[i].url : i \in 1..Len(articles)}

\* C18: the candidates a run hands to evaluate_batch carry no URL that was
\* in the table when the run read it; the judgment oracle is called only for
\* those candidates, the selection is taken from them, and the generation
\* oracle is called only for the selection.
FilteredBeforeScoring ==
    [][\A t \in Threads :
          LET existing_urls == {store[i].original_url : i \in 1..Len(store)}
          IN  /\ (pc[t] = "fetch" /\ pc'[t] = "eval_oracle") =>
                     UrlsOf(frame'[t].new_articles) \cap existing_urls = {}
              /\ (pc[t] = "eval_oracle" /\ pc'[t] \in {"eval_oracle", "select"}
                     /\ frame'[t] # frame[t]) =>
                     /\ Len(frame'[t].oracle_calls) = Len(frame[t].oracle_calls) + 1
                     /\ frame'[t].oracle_calls[Len(frame'[t].oracle_calls)]
                            \in UrlsOf(frame[t].new_articles)
                     /\ UrlsOf(frame'[t].new_articles) = UrlsOf(frame[t].new_articles)
              /\ (pc[t] = "select" /\ pc'[t] = "unflag") =>
                     UrlsOf(frame'[t].top6) \subseteq UrlsOf(frame[t].new_articles)
              /\ (pc[t] \in {"unflag", "generate"} /\ pc'[t] \in {"generate", "commit"}) =>
                     frame'[t].top6 = frame[t].top6
              /\ (pc[t] = "generate" /\ pc'[t] \in {"generate", "commit"}
                     /\ frame'[t] # frame[t]) =>
                     /\ Len(session'[t].pending) = Len(session[t].pending) + 1
                     /\ session'[t].pending[Len(session'[t].pending)].original_url
                            \in UrlsOf(frame[t].top6)
      ]_vars

\* a run that fetched only links that are in the table goes to the
\* nothing-new exit without a call of an oracle
StoredUrlsFilteredOut ==
    \E t \in Threads :
        /\ pc[t] = "save_new"
        /\ store # <<>>
        /\ frame[t].oracle_calls = <<>>
        /\ status.phase_detail = <<"nothing_new">>

\* the oracle outcomes the claim calls a failure or unparsable output
GenFailureKinds ==
    {"missing_credential", "api_error", "empty_content", "no_json",
     "bare_json", "invalid_json"}

\* C19: generate_article returns a dict with headline, content and
\* image_query for every behaviour of the oracle, and on a failure or
\* unparsable output the dict is the original title, the original
\* description and one term that is the same for every failure.
GenerateNeverRaises ==
    (call.fn = "generate_article" /\ call.done) =>
        /\ call.result.raised = ""
        /\ DOMAIN call.result.value = {"headline", "content", "image_query"}
        /\ call.arg.reply.kind \in GenFailureKinds =>
              /\ call.result.value.headline = call.arg.article.title
              /\ call.result.value.content =
                     Get(call.arg.article.description, Str("", 0))
              /\ \A c \in GenerateArticleCalls :
                     LET other == GenerateArticle(c.arg.article, c.arg.reply)
                     IN (c.arg.reply.kind \in GenFailureKinds /\ other.raised = "") =>
                            other.value.image_query = call.result.value.image_query

\* the answer of the service to the k-th request of a find_image call
ImgReplyAt(arg, k) == IF k <= Len(arg.script) THEN arg.script[k] ELSE arg.rest

\* C20: find_image returns a descriptor with url, alt, photographer and
\* photographer_url for every behaviour of the service, and the built-in
\* fallback image when neither the first query nor the retry query gave a
\* photo.
FindImageNeverRaises ==
    (call.fn = "find_image" /\ call.done) =>
        /\ call.result.raised = ""
        /\ DOMAIN call.result.value = {"url", "alt", "photographer", "photographer_url"}
        /\ (\/ ~call.arg.has_key
            \/ /\ ImgReplyAt(call.arg, 1) \notin {"photo", "photo_no_alt"}
               /\ ImgReplyAt(call.arg, 2) \notin {"photo", "photo_no_alt"}) =>
              /\ call.result.value.url = FALLBACK_IMAGE
              /\ call.result.value.photographer = ""
              /\ call.result.value.photographer_url = ""

\* C21: one find_image call makes at most two requests to the service and
\* ends by itself, and when the first search is unreachable or has no
\* results it searches once more, for the retry query.
RetriesOnce ==
    (call.fn = "find_image" /\ call.done) =>
        LET made == FindImageRequests(call.arg.has_key, call.arg.script,
                                      call.arg.rest, 1)
        IN /\ made.bounded
           /\ made.n <= 2
           /\ call.result.raised # "RecursionError"
           /\ (call.arg.has_key /\ ImgReplyAt(call.arg, 1) \in {"unreachable", "zero"}) =>
                  made.n = 2

\* C22: start_scheduler launches one thread for a run when there is no
\* last-run timestamp or the time since it is at least the interval, and
\* none otherwise.
StartupCatchUp ==
    (call.fn = "start_scheduler" /\ call.done) =>
        call.result.threads =
            (IF \/ call.arg.stored = NoTime
                \/ call.arg.time - call.arg.stored >= call.arg.hours
             THEN 1 ELSE 0)

\* the last run is exactly one interval old and the catch-up run is
\* launched
CatchUpAtInterval ==
    /\ call.fn = "start_scheduler"
    /\ call.done
    /\ call.arg.stored # NoTime
    /\ call.arg.time - call.arg.stored = call.arg.hours
    /\ call.result.threads = 1

\* C23: every set_interval call made while the scheduler is active, a run
\* in progress or not, stores the new interval and gives the interval
\* trigger the new period, leaves the scheduler running and changes no
\* field of _status and nothing of a run.
SetIntervalTakesEffect ==
    [][(call' # call /\ call'.fn = "set_interval") =>
          /\ call'.result.raised = ""
          /\ GetIntervalHours' = call'.arg.hours
          /\ jobTrigger' = call'.arg.hours
          /\ schedRunning'
          /\ status' = status
          /\ pc' = pc /\ frame' = frame /\ session' = session
      ]_vars

\* _status as it is after each whole update of a run, and before the first
WholeSnapshots(run) ==
    {AfterUpdates(InitStatus, RunUpdates(run), k) : k \in 0..Len(RunUpdates(run))}

\* C24: the dict a get_status call copies while a run goes on is _status
\* as it was after one of the run's whole updates.
StatusReadIsWhole ==
    (call.fn = "get_status" /\ call.done) =>
        call.result \in WholeSnapshots(writer.run)

\* the place of a phase in the order of a run
PhaseRank(phase) ==
    CASE phase = "fetching" -> 1
      [] phase = "evaluating" -> 2
      [] phase = "generating" -> 3
      [] phase \in {"done", "error"} -> 4
      [] OTHER -> 0

\* C25: the phases one run sets only move forward: evaluating is set only
\* after fetching, generating only after evaluating, and after done or
\* error the run sets no other phase.
PhaseMovesForward ==
    [][\A t \in Threads :
          (Moved(t) /\ InRun(t) /\ InRun(t)') =>
              /\ PhaseRank(frame'[t].phase) >= PhaseRank(frame[t].phase)
              /\ (frame'[t].phase = "evaluating" /\ frame[t].phase # "evaluating") =>
                     frame[t].phase = "fetching"
              /\ (frame'[t].phase = "generating" /\ frame[t].phase # "generating") =>
                     frame[t].phase = "evaluating"
              /\ frame[t].phase \in {"done", "error"} =>
                     frame'[t].phase = frame[t].phase
      ]_vars

\* C26: whenever a run takes the guard while no other run has it, the
\* phase of _status is idle.
IdleBeforeRun ==
    [][\A t \in Threads :
          (pc[t] = "acquire" /\ pc'[t] # "acquire"
              /\ \A u \in Threads : ~InRun(u)) =>
                 status.phase = "idle"
      ]_vars

\* C27: a run that finds no enabled source sets phase error with the
\* no-sources message in the step in which it took the guard, goes to the
\* finally clause without a fetch or an oracle call, and the finally clause
\* releases the guard.
NoSourcesEndsInError ==
    [][\A t \in Threads :
          /\ (pc[t] = "acquire" /\ pc'[t] # "acquire" /\ frame'[t].sources = {}) =>
                 /\ pc'[t] = "finally"
                 /\ frame'[t].phase = "error"
                 /\ status'.phase = "error"
                 /\ status'.phase_detail = <<"no_sources">>
                 /\ frame'[t].oracle_calls = <<>>
                 /\ session'[t] = EmptySession
          /\ (pc[t] = "finally" /\ pc'[t] # "finally") =>
                 /\ pc'[t] = "idle"
                 /\ ~status'.running
      ]_vars

\* a run with no enabled source stands before its finally clause
NoSourcesRunAtFinally ==
    \E t \in Threads :
        /\ pc[t] = "finally"
        /\ frame[t].phase = "error"
        /\ frame[t].error = ""
        /\ status.phase_detail = <<"no_sources">>
        /\ status.running

\* C28: a run whose fetch gives no new candidate (nothing fetched, or
\* every fetched link in the table) sets phase done, never sets evaluating
\* or error afterwards, calls no oracle and writes no row, up to its finally
\* clause.
NothingNewEndsDone ==
    [][\A t \in Threads :
          /\ (pc[t] = "fetch" /\ pc'[t] \in {"finally", "save_new"}) =>
                 /\ frame'[t].phase = "done"
                 /\ status'.phase = "done"
                 /\ status'.phase_detail \in {<<"nothing_fetched">>, <<"nothing_new">>}
                 /\ frame'[t].oracle_calls = <<>>
                 /\ session'[t] = EmptySession
                 /\ store' = store
          /\ (pc[t] = "save_new" /\ Moved(t)) =>
                 /\ pc'[t] = "finally"
                 /\ frame'[t].phase = "done"
                 /\ session'[t] = EmptySession
                 /\ store' = store
      ]_vars

\* C29: a candidate whose oracle call fails (the request fails, or the
\* reply is no JSON or JSON evaluate_article can not use) gets score 5.0
\* with no boost, an empty rationale, no keywords and the default category.
NeutralDefault ==
    (/\ call.fn = "evaluate_article"
     /\ call.done
     /\ call.arg.reply.kind \in {"malformed", "api_error", "unexpected"}) =>
        /\ ~call.result.raised
        /\ call.result.value =
              [score |-> NeutralScore, reason |-> "",
               extracted_keywords |-> <<>>, category |-> DefaultCategory]

\* C30: a skipped article gets the score 3.0 + pre-score kept within
\* [1.0, 4.0], the pre-filtered marker, no keywords and the default
\* category, and a higher pre-score never gives a lower score.
SkippedGetsClampedScore ==
    (call.fn = "skip_article" /\ call.done) =>
        LET sum == SkippedBase + call.arg.pre
        IN /\ call.result.positivity_score =
                  (IF sum < SkippedMin THEN SkippedMin
                   ELSE IF sum > SkippedMax THEN SkippedMax ELSE sum)
           /\ call.result.score_reason = "Pre-filtrovano"
           /\ call.result.extracted_keywords = <<>>
           /\ call.result.category = DefaultCategory
           /\ \A p \in PreScores :
                  p <= call.arg.pre =>
                      SkippedEvaluation(p).positivity_score
                          <= call.result.positivity_score

\* an article with the lowest pre-score was skipped and kept at the floor
SkippedAtFloor ==
    /\ call.fn = "skip_article"
    /\ call.done
    /\ call.arg.pre = 0 - BoostMax
    /\ call.result.positivity_score = SkippedMin

\* the keys an evaluation stores in an article
EvaluationKeys == {"positivity_score", "score_reason", "extracted_keywords", "category"}

\* C31: the list evaluate_batch returns holds every article of its input
\* once and no other, every element carries the four keys of its evaluation
\* with a score in [1.0, 10.0], and the scores do not rise along the list.
BatchReturnedRanked ==
    pc[Spawned] = "returned" =>
        LET input  == frame[Spawned].new_articles
            ranked == frame[Spawned].ranked
        IN /\ Len(ranked) = Len(input)
           /\ \A i \in 1..Len(input) :
                 Cardinality({r \in 1..Len(ranked) :
                                 /\ ranked[r].url = input[i].url
                                 /\ ranked[r].text = input[i].text}) = 1
           /\ \A r \in 1..Len(ranked) :
                 /\ EvaluationKeys \subseteq DOMAIN ranked[r]
                 /\ ranked[r].positivity_score \in ScoreMin..ScoreMax
           /\ \A r \in 1..(Len(ranked) - 1) :
                 ranked[r].positivity_score >= ranked[r + 1].positivity_score

\* a batch larger than the budget came back in another order than it went
\* in, with oracle-judged and skipped articles and more than one score
MixedBatchReordered ==
    /\ pc[Spawned] = "returned"
    /\ LET input  == frame[Spawned].new_articles
           ranked == frame[Spawned].ranked
       IN /\ Len(input) > MAX_CLAUDE_EVALS
          /\ ranked[1].url # input[1].url
          /\ ranked[1].positivity_score > ranked[Len(ranked)].positivity_score
          /\ \E r \in 1..Len(ranked) : ranked[r].score_reason = "Pre-filtrovano"
          /\ \E r \in 1..Len(ranked) : ranked[r].score_reason = "oracle"

\* C32: in evaluate_batch the oracle candidates and the skipped articles
\* split the batch in two (every article is in exactly one of them), a
\* candidate's pre-score is never below a skipped article's, the oracle is
\* asked about candidates only, and the articles that come back with the
\* skipped articles' rationale are exactly the skipped ones.
CandidatesAreTopByPreScore ==
    pc[Spawned] \in {"eval_oracle", "select", "returned"} =>
        LET fr    == frame[Spawned]
            arts  == fr.new_articles
            cands == Candidates(fr.pre_sorted)
            skip  == Skipped(fr.pre_sorted)
        IN /\ Len(cands) + Len(skip) = Len(arts)
           /\ Len(cands) = Min2(Len(arts), MAX_CLAUDE_EVALS)
           /\ Range(cands) \cup Range(skip) = 1..Len(arts)
           /\ Range(cands) \cap Range(skip) = {}
           /\ \A c \in Range(cands), k \in Range(skip) :
                 arts[c].kw_pre_score >= arts[k].kw_pre_score
           /\ Range(fr.oracle_calls) \subseteq {arts[c].url : c \in Range(cands)}
           /\ pc[Spawned] = "returned" =>
                 {fr.ranked[r].url : r \in {q \in 1..Len(fr.ranked) :
                        fr.ranked[q].score_reason = "Pre-filtrovano"}}
                     = {arts[k].url : k \in Range(skip)}

\* a batch over the budget in which a skipped article stood before a
\* candidate with a higher pre-score in the input, and was left out of the
\* oracle's calls
LowerPreScoreSkipped ==
    /\ pc[Spawned] = "returned"
    /\ LET fr    == frame[Spawned]
           arts  == fr.new_articles
           cands == Candidates(fr.pre_sorted)
           skip  == Skipped(fr.pre_sorted)
       IN \E c \in Range(cands), k \in Range(skip) :
             /\ k < c
             /\ arts[c].kw_pre_score > arts[k].kw_pre_score
             /\ arts[k].url \notin Range(fr.oracle_calls)
             /\ arts[c].url \in Range(fr.oracle_calls)

\* C33: fetch_feed returns at most 20 candidates; they are the entries
\* among the first 20 of the document that have a title and a link, in the
\* order of the document, so an entry behind the 20th or without a title or
\* a link gives no candidate; and fetch_all_feeds over S enabled sources
\* returns at most 20 x S candidates.
SourceCapped ==
    /\ (call.fn = "fetch_feed" /\ call.done) =>
          LET entries == call.arg.entries
              res     == call.result
              usable  == {i \in 1..Len(entries) :
                             /\ i <= FeedCap
                             /\ CleanHtml[entries[i].title] # ""
                             /\ entries[i].link # NoLink}
          IN /\ Len(res) <= FeedCap
             /\ Len(res) = Cardinality(usable)
             /\ \A k \in 1..Len(res) :
                   \E i \in usable :
                       /\ entries[i].link = res[k].url
                       /\ Cardinality({j \in usable : j < i}) = k - 1
    /\ (call.fn = "fetch_all_feeds" /\ call.done) =>
          Len(call.result) <= FeedCap * Cardinality(call.arg.sources)

\* a document of more than 20 entries that begins with unusable entries:
\* fewer than 20 candidates come back, and the sound entries behind the
\* 20th are not among them
LongDocumentCut ==
    /\ call.fn = "fetch_feed"
    /\ call.done
    /\ Len(call.arg.entries) > FeedCap
    /\ CleanHtml[call.arg.entries[1].title] = ""
    /\ call.arg.entries[FeedCap + 1].title = "title"
    /\ call.result # <<>>
    /\ Len(call.result) < FeedCap
    /\ \A k \in 1..Len(call.result) : call.result[k].url <= FeedCap

\* C34: in every state of the snapshot evaluated is at most
\* total_to_evaluate; a run that takes the guard sets both to 0, and each
\* oracle call of the evaluating phase is followed by the callback with the
\* next count 1, 2, .., min(N, MAX_CLAUDE_EVALS) and that total.
ProgressWithinTotal ==
    /\ status.evaluated <= status.total_to_evaluate
    /\ \A t \in Threads :
          pc[t] \in {"eval_oracle", "select"} =>
              /\ Len(frame[t].oracle_calls) = frame[t].idx - 1
              /\ frame[t].idx - 1 <= Min2(Len(frame[t].new_articles), MAX_CLAUDE_EVALS)

\* C35: whenever the running flag of the snapshot is down, its phase is
\* idle, done or error, never fetching, evaluating or generating.
IdlePhaseWhenNotRunning ==
    ~status.running => status.phase \in {"idle", "done", "error"}

\* the run of thread t has not committed a batch: no row of the table
\* carries its start time
NothingPublishedBy(t) ==
    \A i \in 1..Len(store) : store[i].batch # frame[t].started_at

\* C36: as long as a run has not published (before its commit, and at its
\* except and finally clauses when it ends otherwise: no sources, nothing
\* fetched, nothing new, nothing eligible, an exception), the rows that were
\* in the table when it started are still there; and when no other run has
\* committed since, the table is exactly as it was when the run started,
\* every flag included.
UnpublishedRunLeavesTable ==
    \A t \in Threads :
        (InRun(t) /\ NothingPublishedBy(t)) =>
            LET start == frame[t].rows_at_start
            IN /\ Len(store) >= Len(start)
               /\ \A i \in 1..Len(start) :
                     /\ store[i].original_url = start[i].original_url
                     /\ store[i].batch = start[i].batch
               /\ Len(store) = Len(start) => store = start

\* a run that cleared the flags in its transaction and then raised in the
\* generating phase or at the commit is at its finally clause, over a table
\* whose flagged rows are those of its start
FailedRunAtFinally ==
    \E t \in Threads :
        /\ pc[t] = "finally"
        /\ frame[t].error \in {"generate", "commit"}
        /\ NothingPublishedBy(t)
        /\ FlaggedRows # {}
        /\ store = frame[t].rows_at_start

\* a ledger without its i-th entry
WithoutEntry(kws, i) == SubSeq(kws, 1, i - 1) \o SubSeq(kws, i + 1, Len(kws))

\* C37: in every ledger the posts to /admin/keywords/add can leave, for a
\* text that contains every word of it: an entry tagged positive does not
\* make the sum of _keyword_boost (before the clamp) lower than it is
\* without the entry, and an entry tagged negative does not make it higher.
KeywordPolarity ==
    (call.fn = "admin_keywords_add" /\ call.done) =>
        LET kws  == call.result
            text == {kws[i].word : i \in 1..Len(kws)}
        IN \A i \in 1..Len(kws) :
              /\ kws[i].keyword_type = "positive" =>
                    BoostSum(text, kws) >= BoostSum(text, WithoutEntry(kws, i))
              /\ kws[i].keyword_type = "negative" =>
                    BoostSum(text, kws) <= BoostSum(text, WithoutEntry(kws, i))

\* a call of fn has returned in this step without raising
Returned(fn) ==
    /\ call' # call
    /\ call'.fn = fn
    /\ call'.done
    /\ call'.result.raised = ""

\* C38: before any write get_min_score gives 6.0 and get_interval 2.0;
\* after a set_min_score call that returned, get_min_score gives its
\* argument rounded to one decimal, and after a set_interval call that
\* returned, get_interval gives its argument; each keeps its value until
\* the next such call; and a write of one key (last_run_ts included) leaves
\* the rows of the other keys as they were.
SettingsRoundTrip ==
    /\ GetMinScore = DefaultMinScore
    /\ GetIntervalHours = DefaultIntervalHours
    /\ [][/\ Returned("set_min_score") =>
                /\ GetMinScore' = Round1(call'.arg.score)
                /\ settings'.scrape_interval_hours = settings.scrape_interval_hours
                /\ settings'.last_run_ts = settings.last_run_ts
          /\ Returned("set_interval") =>
                /\ GetIntervalHours' = call'.arg.hours
                /\ settings'.min_publish_score = settings.min_publish_score
                /\ settings'.last_run_ts = settings.last_run_ts
          /\ ~Returned("set_min_score") => GetMinScore' = GetMinScore
          /\ ~Returned("set_interval") => GetIntervalHours' = GetIntervalHours
          /\ settings'.last_run_ts # settings.last_run_ts =>
                /\ settings'.min_publish_score = settings.min_publish_score
                /\ settings'.scrape_interval_hours = settings.scrape_interval_hours
       ]_vars

\* after an interval of 24 hours was stored and a run wrote its timestamp,
\* a score of 6.45 was stored and is read back as 6.5, the interval still
\* 24 and the timestamp still there
AllThreeKeysWritten ==
    /\ call.fn = "set_min_score"
    /\ call.done
    /\ call.arg.score = 645
    /\ GetMinScore = 650
    /\ GetIntervalHours = 24
    /\ settings.last_run_ts = StartHour + 1

====
